---- MODULE Spec2Model ----
(***************************************************************************)
(* Model of the affiliation-parser extraction engine                       *)
(* (src/affiliation-parser/src/main.rs): the profile-driven extractor, the *)
(* shared identity maps, the per-file batches, the bounded queue and the   *)
(* single deduplicating CSV writer with its null finalization.             *)
(*                                                                         *)
(* Conventions.                                                            *)
(*  - A data string (JSON string, value type, null content, filter value)  *)
(*    is a sequence of one-character strings, so that trim, split_once,    *)
(*    eq_ignore_ascii_case and format!("{}:{}") are computed as the code   *)
(*    computes them.  Names that the code only compares as a whole (field  *)
(*    names, null keys, relationship types, process ids, prefixes) are     *)
(*    TLA+ strings.                                                        *)
(*  - Option<T> is None / Some(x).                                         *)
(*  - A JSON value is a tagged record: Str, Num, Bool, Null, Arr, Obj.     *)
(*  - SHA-256 is taken to be collision free: the digest of a content is    *)
(*    represented by the content itself, tagged.                           *)
(*  - A worker's handling of one input line is one atomic step; the shared *)
(*    maps are only touched through DashMap's atomic entry API and only    *)
(*    ever grow.                                                           *)
(***************************************************************************)
EXTENDS Integers, Sequences, FiniteSets, TLC

(***************************************************************************)
(* Bounds of the model                                                     *)
(***************************************************************************)
\* number of input files of a run (one entry of files_to_process_with_filters each)
MaxFiles == 2
\* number of lines of an input file
MaxLines == 2
\* cli.threads: the size of the worker pool
NumThreads == 2

(***************************************************************************)
(* Option, strings                                                         *)
(***************************************************************************)
None == [some |-> FALSE]
Some(x) == [some |-> TRUE, val |-> x]

Max(a, b) == IF a >= b THEN a ELSE b

IsWhitespace(c) == c \in {" "}

RECURSIVE trim_start(_)
trim_start(s) ==
    IF s = <<>> THEN <<>>
    ELSE IF IsWhitespace(Head(s)) THEN trim_start(Tail(s)) ELSE s

RECURSIVE trim_end(_)
trim_end(s) ==
    IF s = <<>> THEN <<>>
    ELSE IF IsWhitespace(s[Len(s)]) THEN trim_end(SubSeq(s, 1, Len(s) - 1)) ELSE s

\* str::trim
trim(s) == trim_end(trim_start(s))

AsciiUpper ==
    {"A","B","C","D","E","F","G","H","I","J","K","L","M",
     "N","O","P","Q","R","S","T","U","V","W","X","Y","Z"}

AsciiLowerOf ==
    [A |-> "a", B |-> "b", C |-> "c", D |-> "d", E |-> "e", F |-> "f", G |-> "g",
     H |-> "h", I |-> "i", J |-> "j", K |-> "k", L |-> "l", M |-> "m", N |-> "n",
     O |-> "o", P |-> "p", Q |-> "q", R |-> "r", S |-> "s", T |-> "t", U |-> "u",
     V |-> "v", W |-> "w", X |-> "x", Y |-> "y", Z |-> "z"]

to_ascii_lowercase(c) == IF c \in AsciiUpper THEN AsciiLowerOf[c] ELSE c

\* str::eq_ignore_ascii_case
eq_ignore_ascii_case(a, b) ==
    /\ Len(a) = Len(b)
    /\ \A i \in 1..Len(a) : to_ascii_lowercase(a[i]) = to_ascii_lowercase(b[i])

\* position of the first occurrence of character c in s, 0 when there is none
RECURSIVE find_char(_, _, _)
find_char(s, c, i) ==
    IF i > Len(s) THEN 0
    ELSE IF s[i] = c THEN i ELSE find_char(s, c, i + 1)

\* str::split_once(c).map(|(pfx, _)| pfx)
split_once_prefix(s, c) ==
    LET i == find_char(s, c, 1)
    IN  IF i = 0 THEN None ELSE Some(SubSeq(s, 1, i - 1))

\* [String]::join(separator)
RECURSIVE join(_, _)
join(parts, separator) ==
    IF parts = <<>> THEN <<>>
    ELSE IF Len(parts) = 1 THEN parts[1]
    ELSE parts[1] \o separator \o join(Tail(parts), separator)

(***************************************************************************)
(* JSON values (serde_json::Value)                                         *)
(***************************************************************************)
Str(s) == [k |-> "str", s |-> s]
\* a number carries its textual form (Value::to_string)
Num(t) == [k |-> "num", t |-> t]
Bool(b) == [k |-> "bool", b |-> b]
Null == [k |-> "null"]
Arr(a) == [k |-> "arr", a |-> a]
Obj(o) == [k |-> "obj", o |-> o]

\* Value::as_str
as_str(v) == IF v.k = "str" THEN Some(v.s) ELSE None

is_number(v) == v.k = "num"
is_boolean(v) == v.k = "bool"

\* Value::to_string of a scalar that is not a string; a composite value is
\* rendered as its bare brackets (its members are not serialised)
to_string(v) ==
    CASE v.k = "num" -> v.t
      [] v.k = "bool" -> IF v.b THEN <<"t","r","u","e">> ELSE <<"f","a","l","s","e">>
      [] v.k = "null" -> <<"n","u","l","l">>
      [] v.k = "str" -> <<"\"">> \o v.s \o <<"\"">>
      [] v.k = "arr" -> <<"[", "]">>
      [] v.k = "obj" -> <<"{", "}">>

\* a path of the profile: "/a/b" is Pointer(<<"a","b">>), "a" is Key("a")
Pointer(segs) == [pointer |-> TRUE, segs |-> segs]
Key(name) == [pointer |-> FALSE, segs |-> <<name>>]

\* the 1-based position named by an array reference token ("0" is the first
\* element); 0 when the token names no position of the arrays of the model
ArrayIndexToken(tok) ==
    CASE tok = "0" -> 1
      [] tok = "1" -> 2
      [] tok = "2" -> 3
      [] OTHER -> 0

\* Value::get(&str): a member of an object, None on anything else
value_get(node, name) ==
    IF node.k = "obj" /\ name \in DOMAIN node.o THEN Some(node.o[name]) ELSE None

\* Value::pointer: one reference token at a time, through objects and arrays
RECURSIVE value_pointer(_, _)
value_pointer(node, segs) ==
    IF segs = <<>> THEN Some(node)
    ELSE IF node.k = "obj"
         THEN IF Head(segs) \in DOMAIN node.o
              THEN value_pointer(node.o[Head(segs)], Tail(segs))
              ELSE None
    ELSE IF node.k = "arr"
         THEN LET i == ArrayIndexToken(Head(segs))
              IN  IF i >= 1 /\ i <= Len(node.a)
                  THEN value_pointer(node.a[i], Tail(segs))
                  ELSE None
    ELSE None

get_value_at_path(node, path) ==
    IF path.pointer THEN value_pointer(node, path.segs)
    ELSE value_get(node, path.segs[1])

(***************************************************************************)
(* Deterministic identifiers                                               *)
(***************************************************************************)
\* SHA-256, collision free
Sha256(content) == [digest_of |-> content]

\* format!("{}-sha256-{}", prefix, hex::encode(result))
generate_deterministic_id(prefix, content) ==
    [prefix |-> prefix, alg |-> "sha256", hex |-> Sha256(content)]

(***************************************************************************)
(* Output rows and batches                                                 *)
(***************************************************************************)
\* the run-wide timestamp (get_current_timestamp_str, taken once in main)
RunTimestamp == "run-timestamp"

\* OutputBatch::default()
EmptyBatch ==
    [records |-> <<>>, values |-> <<>>, process_record_relationships |-> <<>>,
     process_value_relationships |-> <<>>, record_value_relationships |-> <<>>,
     value_value_relationships |-> <<>>]

is_empty(batch) ==
    /\ batch.records = <<>>
    /\ batch.values = <<>>
    /\ batch.process_record_relationships = <<>>
    /\ batch.process_value_relationships = <<>>
    /\ batch.record_value_relationships = <<>>
    /\ batch.value_value_relationships = <<>>

count_rows(batch) ==
    Len(batch.records) + Len(batch.values) + Len(batch.process_record_relationships)
    + Len(batch.process_value_relationships) + Len(batch.record_value_relationships)
    + Len(batch.value_value_relationships)

\* Uuid::new_v4: a fresh token.  Every call is followed by a push to the
\* batch of the calling worker, so (file, rows so far) never repeats.
generate_relationship_uuid(self, batch) == [file |-> self.file, n |-> count_rows(batch)]

\* a map whose insert replaces the entry of a key that is already present
entry_overwrite(map, key, value) ==
    (key :> value) @@ [k \in DOMAIN map \ {key} |-> map[k]]

\* DashMap::entry(key).or_insert_with(|| value): the first inserter wins
entry_or_insert(map, key, value) ==
    IF key \in DOMAIN map THEN map ELSE (key :> value) @@ map

(***************************************************************************)
(* JsonlProcessor: value extraction                                        *)
(* self = [profile, null_value_ids, active_filters, file]                  *)
(***************************************************************************)
\* the parts of CombineFields: the non-empty trimmed strings, in field order
RECURSIVE combine_parts(_, _)
combine_parts(node, fields) ==
    IF fields = <<>> THEN <<>>
    ELSE LET v == get_value_at_path(node, Pointer(<<Head(fields)>>))
             s == IF v.some /\ v.val.k = "str" THEN trim(v.val.s) ELSE <<>>
         IN  (IF s # <<>> THEN <<s>> ELSE <<>>) \o combine_parts(node, Tail(fields))

\* the Option<String> of extract_value; the value type is config.target_value_type
extract_value(node, config) ==
    IF config.type = "field"
    THEN LET v == get_value_at_path(node, Pointer(<<config.field>>))
             s == IF ~v.some THEN <<>>
                  ELSE IF v.val.k = "str" THEN trim(v.val.s)
                  ELSE IF is_number(v.val) \/ is_boolean(v.val) THEN to_string(v.val)
                  ELSE <<>>
         IN  IF s # <<>> THEN Some(s) ELSE None
    ELSE LET parts == combine_parts(node, config.fields)
         IN  IF parts = <<>> THEN None ELSE Some(join(parts, config.separator))

generate_record_id(self, primary_id_value) ==
    generate_deterministic_id(self.profile.deterministic_ids.record_prefix, primary_id_value)

generate_value_id(self, value_type, content) ==
    generate_deterministic_id(self.profile.deterministic_ids.value_prefix,
                              value_type \o <<":">> \o content)

\* Ok((final_content, value_id)) or Err, with the value_id_map after the call
get_or_create_value_id(self, vmap, extracted_content, value_type, null_ref) ==
    IF extracted_content.some
    THEN LET content == extracted_content.val
             key == <<value_type, content>>
             m == entry_or_insert(vmap, key, generate_value_id(self, value_type, content))
         IN  [ok |-> TRUE, content |-> content, value_id |-> m[key], value_id_map |-> m]
    ELSE IF null_ref.some /\ null_ref.val \in DOMAIN self.profile.null_values
                          /\ null_ref.val \in DOMAIN self.null_value_ids
    THEN [ok |-> TRUE, content |-> self.profile.null_values[null_ref.val].content,
          value_id |-> self.null_value_ids[null_ref.val], value_id_map |-> vmap]
    ELSE [ok |-> FALSE, value_id_map |-> vmap]

add_value_rows(self, value_id, value_type, value_content, batch) ==
    [batch EXCEPT
       !.values = Append(@, [value_id |-> value_id, value_type |-> value_type,
                             value_content |-> value_content]),
       !.process_value_relationships =
           Append(@, [process_value_id |-> generate_relationship_uuid(self, batch),
                      process_id |-> self.profile.process_info.process_id,
                      value_id |-> value_id, relationship_type |-> "created",
                      confidence_score |-> 1, timestamp |-> RunTimestamp])]

add_value_value_relationship(self, source_id, target_id, rel_type, ordinal, batch) ==
    [batch EXCEPT
       !.value_value_relationships =
           Append(@, [value_value_id |-> generate_relationship_uuid(self, batch),
                      source_value_id |-> source_id, target_value_id |-> target_id,
                      relationship_type |-> rel_type, ordinal |-> ordinal,
                      process_id |-> self.profile.process_info.process_id,
                      confidence_score |-> 1, timestamp |-> RunTimestamp])]

add_record_value_relationship(self, record_id, value_id, rel_type, ordinal, batch) ==
    [batch EXCEPT
       !.record_value_relationships =
           Append(@, [record_value_id |-> generate_relationship_uuid(self, batch),
                      record_id |-> record_id, value_id |-> value_id,
                      relationship_type |-> rel_type, ordinal |-> ordinal,
                      process_id |-> self.profile.process_info.process_id,
                      timestamp |-> RunTimestamp])]

check_filter_condition(node, condition) ==
    LET fv == get_value_at_path(node, Pointer(<<condition.field>>))
    IN  IF ~fv.some THEN FALSE
        ELSE IF fv.val.k = "str"
             THEN IF condition.case_insensitive.some /\ condition.case_insensitive.val
                  THEN eq_ignore_ascii_case(fv.val.s, condition.equals)
                  ELSE fv.val.s = condition.equals
        ELSE IF is_number(fv.val) \/ is_boolean(fv.val)
             THEN eq_ignore_ascii_case(to_string(fv.val), condition.equals)
        ELSE FALSE

\* the items an entity or related-value path yields
items_of(data, is_array) ==
    IF is_array THEN (IF data.k = "arr" THEN data.a ELSE <<>>) ELSE <<data>>

\* the null default of a related value: a values row of the null's own type
\* and a link from the parent with no ordinal
apply_null_default(self, parent_value_id, config, batch) ==
    LET null_ref == config.extract_value.use_null
    IN  IF null_ref.some /\ null_ref.val \in DOMAIN self.profile.null_values
                         /\ null_ref.val \in DOMAIN self.null_value_ids
        THEN LET null_config == self.profile.null_values[null_ref.val]
                 null_id == self.null_value_ids[null_ref.val]
                 b1 == add_value_rows(self, null_id, null_config.value_type,
                                      null_config.content, batch)
             IN  add_value_value_relationship(self, parent_value_id, null_id,
                                              config.relationship_to_parent, None, b1)
        ELSE batch

\* one iteration of the loop over items_to_check of a related-value config;
\* acc = [st, found, stop]: st = [batch, value_id_map], found is
\* found_match_for_config, stop is the break of take_first_match
related_item(self, config, item, parent_value_id, acc) ==
    LET condition_met == IF config.filter_condition.some
                         THEN check_filter_condition(item, config.filter_condition.val)
                         ELSE TRUE
        r == get_or_create_value_id(self, acc.st.value_id_map,
                 extract_value(item, config.extract_value),
                 config.extract_value.target_value_type,
                 config.extract_value.use_null)
    IN  IF ~condition_met THEN acc
        ELSE IF ~r.ok THEN acc
        ELSE [st |-> [batch |-> add_value_value_relationship(self, parent_value_id,
                                    r.value_id, config.relationship_to_parent, None,
                                    add_value_rows(self, r.value_id,
                                        config.extract_value.target_value_type,
                                        r.content, acc.st.batch)),
                      value_id_map |-> r.value_id_map],
              found |-> TRUE,
              stop |-> config.take_first_match.some /\ config.take_first_match.val]

\* the loop over items_to_check, from item i on
RECURSIVE related_items(_, _, _, _, _, _)
related_items(self, config, items, i, parent_value_id, acc) ==
    IF i > Len(items) \/ acc.stop THEN acc
    ELSE related_items(self, config, items, i + 1, parent_value_id,
                       related_item(self, config, items[i], parent_value_id, acc))

\* one iteration of the loop over related_configs
related_config(self, current_node, parent_value_id, config, st) ==
    LET data == get_value_at_path(current_node, config.path)
    IN  IF data.some
        THEN LET r == related_items(self, config, items_of(data.val, config.is_array), 1,
                                    parent_value_id,
                                    [st |-> st, found |-> FALSE, stop |-> FALSE])
             IN  IF ~r.found /\ config.filter_condition.some
                 THEN [r.st EXCEPT !.batch =
                          apply_null_default(self, parent_value_id, config, @)]
                 ELSE r.st
        ELSE [st EXCEPT !.batch = apply_null_default(self, parent_value_id, config, @)]

RECURSIVE process_related_values(_, _, _, _, _)
process_related_values(self, current_node, parent_value_id, related_configs, st) ==
    IF related_configs = <<>> THEN st
    ELSE process_related_values(self, current_node, parent_value_id, Tail(related_configs),
             related_config(self, current_node, parent_value_id, Head(related_configs), st))

RECURSIVE process_json_node(_, _, _, _, _, _)

\* the value part of one iteration of the loop over items_to_process:
\* [ok, st, value_id]; ok is FALSE when get_or_create_value_id returned Err
\* (the item is abandoned), value_id is current_entity_value_id
entity_item_value(self, config, item_node, current_ordinal, record_id, parent_value_id, st) ==
    IF ~config.value_extraction.some
    THEN [ok |-> TRUE, st |-> st, value_id |-> None]
    ELSE LET val_config == config.value_extraction.val
             r == get_or_create_value_id(self, st.value_id_map,
                      extract_value(item_node, val_config),
                      val_config.target_value_type, val_config.use_null)
         IN  IF ~r.ok THEN [ok |-> FALSE, st |-> st, value_id |-> None]
             ELSE LET b1 == add_value_rows(self, r.value_id, val_config.target_value_type,
                                           r.content, st.batch)
                      b2 == IF parent_value_id.some
                            THEN IF config.relationship_to_parent.some
                                 THEN add_value_value_relationship(self,
                                          parent_value_id.val, r.value_id,
                                          config.relationship_to_parent.val,
                                          Some(current_ordinal), b1)
                                 ELSE b1
                            ELSE IF config.relationship_to_record.some
                                 THEN add_record_value_relationship(self, record_id,
                                          r.value_id, config.relationship_to_record.val,
                                          current_ordinal, b1)
                                 ELSE b1
                  IN  [ok |-> TRUE, st |-> [batch |-> b2, value_id_map |-> r.value_id_map],
                       value_id |-> Some(r.value_id)]

\* children that get a parent only from a value of the item itself
own_value_id_only(v, parent_value_id) ==
    IF v.value_id.some THEN v.value_id ELSE None

\* parent_id_for_children: current_entity_value_id.or(parent_value_id)
parent_id_for_children(v, parent_value_id) ==
    IF v.value_id.some THEN v.value_id ELSE parent_value_id

\* nested entities that are processed with or without a parent
nested_without_parent(self, config, item_node, record_id, pid, st) ==
    IF config.nested_entities.some
    THEN process_json_node(self, item_node, record_id, pid, config.nested_entities.val, st)
    ELSE st

\* the nested entities of an item, under the parent pid (an Option)
nested_of_item(self, config, item_node, record_id, pid, st) ==
    IF pid.some /\ config.nested_entities.some
    THEN process_json_node(self, item_node, record_id, pid, config.nested_entities.val, st)
    ELSE st

\* the related values of an item, under the parent pid (an Option)
related_of_item(self, config, item_node, pid, st) ==
    IF pid.some /\ config.related_values.some
    THEN process_related_values(self, item_node, pid.val, config.related_values.val, st)
    ELSE st

\* an item whose children are processed although its value part failed
children_of_abandoned_item_too(self, config, item_node, record_id, parent_value_id, v) ==
    related_of_item(self, config, item_node,
        parent_id_for_children(v, parent_value_id),
        nested_of_item(self, config, item_node, record_id,
                       parent_id_for_children(v, parent_value_id), v.st))

\* the children of an item whose value part gave v: none when the item was
\* abandoned, else the nested entities and then the related values
children_of_item(self, config, item_node, record_id, parent_value_id, v) ==
    IF ~v.ok THEN v.st
    ELSE related_of_item(self, config, item_node,
             parent_id_for_children(v, parent_value_id),
             nested_of_item(self, config, item_node, record_id,
                            parent_id_for_children(v, parent_value_id), v.st))

\* one iteration of the loop over items_to_process
entity_item(self, config, item_node, current_ordinal, record_id, parent_value_id, st) ==
    children_of_item(self, config, item_node, record_id, parent_value_id,
        entity_item_value(self, config, item_node, current_ordinal, record_id,
                          parent_value_id, st))

\* the loop over items_to_process of one entity config, from item i on
RECURSIVE entity_items(_, _, _, _, _, _, _)
entity_items(self, config, items, i, record_id, parent_value_id, st) ==
    IF i > Len(items) THEN st
    ELSE entity_items(self, config, items, i + 1, record_id, parent_value_id,
                      entity_item(self, config, items[i], i, record_id, parent_value_id, st))

\* one iteration of the loop over entity_configs
entity_config(self, current_node, record_id, parent_value_id, config, st) ==
    LET entity_data == get_value_at_path(current_node, config.path)
    IN  IF entity_data.some
        THEN entity_items(self, config, items_of(entity_data.val, config.is_array), 1,
                          record_id, parent_value_id, st)
        ELSE st

process_json_node(self, current_node, record_id, parent_value_id, entity_configs, st) ==
    IF entity_configs = <<>> THEN st
    ELSE process_json_node(self, current_node, record_id, parent_value_id,
             Tail(entity_configs),
             entity_config(self, current_node, record_id, parent_value_id,
                           Head(entity_configs), st))

\* JsonlProcessor::should_filter_out(...).unwrap_or(false): some active filter
\* that the profile defines resolves to nothing or to another value than the
\* required one (the order of the HashMap iteration does not change the answer)
filter_config_of(profile, key) ==
    IF profile.filters.some
    THEN LET idx == {i \in 1..Len(profile.filters.val) : profile.filters.val[i].cli_arg = key}
         IN  IF idx = {} THEN None
             ELSE Some(profile.filters.val[CHOOSE i \in idx : \A j \in idx : i <= j])
    ELSE None

resolved_filter_value(self, record, key, fc) ==
    LET v == get_value_at_path(record, fc.path)
    IN  IF v.some
        THEN (IF v.val.k = "str" THEN Some(v.val.s) ELSE Some(to_string(v.val)))
        ELSE IF fc.fallback_from.some
             THEN LET primary_id == get_value_at_path(record, fc.fallback_from.val)
                  IN  IF primary_id.some /\ primary_id.val.k = "str"
                         /\ fc.fallback_from.val.segs = <<"DOI">> /\ key = "doi_prefix"
                      THEN split_once_prefix(primary_id.val.s, "/")
                      ELSE None
        ELSE None

\* a processor that lets every record pass
never_filter_out(self, record) == FALSE

should_filter_out(self, record) ==
    \E key \in DOMAIN self.active_filters :
        LET fc == filter_config_of(self.profile, key)
        IN  /\ fc.some
            /\ LET cv == resolved_filter_value(self, record, key, fc.val)
               IN  ~cv.some \/ cv.val # self.active_filters[key]

\* an identifier that is neither trimmed nor required to be non-empty
primary_id_untrimmed(self, record_json) ==
    LET v == get_value_at_path(record_json, self.profile.record_identifier.path)
    IN  IF v.some /\ v.val.k = "str" THEN Some(v.val.s) ELSE None

\* the identifier of a record: a non-empty trimmed JSON string at the path
primary_id_of(self, record_json) ==
    LET v == get_value_at_path(record_json, self.profile.record_identifier.path)
        s == IF v.some /\ v.val.k = "str" THEN trim(v.val.s) ELSE <<>>
    IN  IF s # <<>> THEN Some(s) ELSE None

\* the rows of a record that passed the filters and has the identifier
\* primary_id_value, given the record_id_map after the entry call
\* st = [batch, record_id_map, value_id_map]
record_rows(self, primary_id_value, record_id, batch) ==
    [batch EXCEPT
       !.records = Append(@, [record_id |-> record_id, doi |-> primary_id_value]),
       !.process_record_relationships =
           Append(@, [process_record_id |->
                          [file |-> self.file, n |-> count_rows(batch) + 1],
                      process_id |-> self.profile.process_info.process_id,
                      record_id |-> record_id,
                      relationship_type |-> "ingested",
                      timestamp |-> RunTimestamp])]

with_record_id_map(r, rmap) ==
    [batch |-> r.batch, record_id_map |-> rmap, value_id_map |-> r.value_id_map]

ingest_record(self, record_json, primary_id_value, rmap, st) ==
    with_record_id_map(
        process_json_node(self, record_json, rmap[primary_id_value], None,
            self.profile.entities,
            [batch |-> record_rows(self, primary_id_value, rmap[primary_id_value],
                                   st.batch),
             value_id_map |-> st.value_id_map]),
        rmap)

\* a loop body that registers the identifier of a record before it looks at
\* the filters
process_line_registers_first(self, line, st) ==
    IF line.kind # "json" THEN st
    ELSE IF ~primary_id_of(self, line.json).some THEN st
    ELSE IF should_filter_out(self, line.json)
         THEN [st EXCEPT !.record_id_map =
                  entry_or_insert(@, primary_id_of(self, line.json).val,
                      generate_record_id(self, primary_id_of(self, line.json).val))]
    ELSE ingest_record(self, line.json, primary_id_of(self, line.json).val,
             entry_or_insert(st.record_id_map, primary_id_of(self, line.json).val,
                 generate_record_id(self, primary_id_of(self, line.json).val)),
             st)

\* the body of the loop of JsonlProcessor::process for one line;
\* st = [batch, record_id_map, value_id_map].  A line is [kind, json] with
\* kind "json" (parses), "blank" (empty after trim), "bad" (parse error) or
\* "read_error" (the reader returned Err for the line).
process_line(self, line, st) ==
    IF line.kind # "json" THEN st
    ELSE IF should_filter_out(self, line.json) THEN st
    ELSE IF ~primary_id_of(self, line.json).some THEN st
    ELSE ingest_record(self, line.json, primary_id_of(self, line.json).val,
             entry_or_insert(st.record_id_map, primary_id_of(self, line.json).val,
                 generate_record_id(self, primary_id_of(self, line.json).val)),
             st)

(***************************************************************************)
(* Profiles of the model                                                   *)
(***************************************************************************)
AuthorNameType == <<"a", "u">>
AffiliationNameType == <<"a", "f">>
RorIdType == <<"r", "o">>
NullMarkerType == <<"n", "u">>
UnknownContent == <<"U">>

RorRelated ==
    [name |-> "ror", path |-> Key("id"), is_array |-> TRUE,
     filter_condition |-> Some([field |-> "id-type", equals |-> <<"R","O","R">>,
                                case_insensitive |-> Some(TRUE)]),
     extract_value |-> [type |-> "field", field |-> "id",
                        target_value_type |-> RorIdType, use_null |-> Some("unknown_ror")],
     relationship_to_parent |-> "has_ror", take_first_match |-> Some(TRUE)]

AffiliationEntity ==
    [name |-> "affiliation", path |-> Key("affiliation"), is_array |-> TRUE,
     relationship_to_record |-> None, relationship_to_parent |-> Some("has_affiliation"),
     value_extraction |-> Some([type |-> "field", field |-> "name",
                                target_value_type |-> AffiliationNameType,
                                use_null |-> None]),
     nested_entities |-> None, related_values |-> Some(<<RorRelated>>)]

AuthorEntity ==
    [name |-> "author", path |-> Key("author"), is_array |-> TRUE,
     relationship_to_record |-> Some("has_author"), relationship_to_parent |-> None,
     value_extraction |-> Some([type |-> "combine_fields", fields |-> <<"given", "family">>,
                                separator |-> <<" ">>,
                                target_value_type |-> AuthorNameType,
                                use_null |-> Some("unknown_author")]),
     nested_entities |-> Some(<<AffiliationEntity>>), related_values |-> None]

NullValues ==
    [unknown_author |-> [value_type |-> NullMarkerType, content |-> UnknownContent],
     unknown_ror |-> [value_type |-> RorIdType, content |-> UnknownContent]]

DoiPrefixFilter ==
    [cli_arg |-> "doi_prefix", path |-> Key("prefix"), fallback_from |-> Some(Pointer(<<"DOI">>))]

MakeProfile(source_id, process_id, record_prefix, value_prefix) ==
    [source_info |-> [source_id |-> source_id],
     process_info |-> [process_id |-> process_id],
     record_identifier |-> [path |-> Pointer(<<"DOI">>), required |-> TRUE],
     deterministic_ids |-> [record_prefix |-> record_prefix, value_prefix |-> value_prefix,
                            value_format |-> "sha256"],
     null_values |-> NullValues,
     filters |-> Some(<<DoiPrefixFilter>>),
     entities |-> <<AuthorEntity>>]

\* three profile files: B differs from A in both prefixes, C shares A's prefixes
ProfileA == MakeProfile("srcA", "procA", "recA", "valA")
ProfileB == MakeProfile("srcB", "procB", "recB", "valB")
ProfileC == MakeProfile("srcC", "procC", "recA", "valA")

\* A with an identifier that is not required
ProfileE ==
    [MakeProfile("srcE", "procE", "recA", "valA") EXCEPT !.record_identifier.required = FALSE]

\* A with another content for the null key unknown_author
ProfileD ==
    [MakeProfile("srcD", "procD", "recA", "valA") EXCEPT
        !.null_values.unknown_author.content = <<"X">>]

\* a profile that exercises the traversal: related values with and without
\* filter_condition, use_null and take_first_match, an entity without
\* value_extraction, a second top-level entity
DeptNameType == <<"d", "e">>
FunderNameType == <<"f", "u">>
TagType == <<"t", "a">>

\* every item of "id" whose id-type is ROR, no null default
IdAllRelated ==
    [name |-> "all_ids", path |-> Key("id"), is_array |-> TRUE,
     filter_condition |-> Some([field |-> "id-type", equals |-> <<"R","O","R">>,
                                case_insensitive |-> Some(TRUE)]),
     extract_value |-> [type |-> "field", field |-> "id",
                        target_value_type |-> RorIdType, use_null |-> None],
     relationship_to_parent |-> "has_id", take_first_match |-> None]

\* the first item of "id" whose id-type is ROR, no null default
FirstIdRelated ==
    [IdAllRelated EXCEPT !.name = "first_id", !.relationship_to_parent = "first_id",
                         !.take_first_match = Some(TRUE)]

\* every item of "tag", no filter_condition, with a null default
TagRelated ==
    [name |-> "tag", path |-> Key("tag"), is_array |-> TRUE,
     filter_condition |-> None,
     extract_value |-> [type |-> "field", field |-> "t",
                        target_value_type |-> TagType, use_null |-> Some("unknown_ror")],
     relationship_to_parent |-> "has_tag", take_first_match |-> Some(FALSE)]

AffiliationEntityF ==
    [AffiliationEntity EXCEPT
        !.related_values = Some(<<RorRelated, IdAllRelated, FirstIdRelated>>)]

DeptEntity ==
    [name |-> "dept", path |-> Key("dept"), is_array |-> TRUE,
     relationship_to_record |-> None, relationship_to_parent |-> Some("has_dept"),
     value_extraction |-> Some([type |-> "field", field |-> "name",
                                target_value_type |-> DeptNameType, use_null |-> None]),
     nested_entities |-> None, related_values |-> None]

\* an entity without value_extraction: a grouping object under an author
PositionEntity ==
    [name |-> "position", path |-> Key("position"), is_array |-> FALSE,
     relationship_to_record |-> None, relationship_to_parent |-> Some("has_position"),
     value_extraction |-> None,
     nested_entities |-> Some(<<DeptEntity>>), related_values |-> Some(<<TagRelated>>)]

AuthorEntityF ==
    [AuthorEntity EXCEPT !.nested_entities = Some(<<AffiliationEntityF, PositionEntity>>)]

FunderEntity ==
    [name |-> "funder", path |-> Key("funder"), is_array |-> TRUE,
     relationship_to_record |-> Some("has_funder"), relationship_to_parent |-> None,
     value_extraction |-> Some([type |-> "field", field |-> "name",
                                target_value_type |-> FunderNameType, use_null |-> None]),
     nested_entities |-> None, related_values |-> None]

ProfileF ==
    [MakeProfile("srcF", "procF", "recA", "valA") EXCEPT
        !.entities = <<AuthorEntityF, FunderEntity>>]

\* a top-level entity without value_extraction: the authors as a grouping
\* array, with the nested entities of profile F and a related value that has
\* a null default
GroupEntity ==
    [AuthorEntityF EXCEPT !.name = "group", !.value_extraction = None,
                          !.related_values = Some(<<TagRelated>>)]

\* the grouping entity, then the funders
ProfileT ==
    [MakeProfile("srcT", "procT", "recA", "valA") EXCEPT
        !.entities = <<GroupEntity, FunderEntity>>]

\* a profile whose record identifier is at "/id", with the doi_prefix filter
\* falling back to that path
ProfileG ==
    [MakeProfile("srcG", "procG", "recA", "valA") EXCEPT
        !.record_identifier.path = Pointer(<<"id">>),
        !.filters = Some(<<[cli_arg |-> "doi_prefix", path |-> Key("prefix"),
                            fallback_from |-> Some(Pointer(<<"id">>))]>>)]

\* a profile that names the identifier "DOI", without the leading slash, as
\* record identifier and as fallback of the doi_prefix filter
ProfileH ==
    [MakeProfile("srcH", "procH", "recA", "valA") EXCEPT
        !.record_identifier.path = Key("DOI"),
        !.filters = Some(<<[cli_arg |-> "doi_prefix", path |-> Key("prefix"),
                            fallback_from |-> Some(Key("DOI"))]>>)]

Profiles ==
    [A |-> ProfileA, B |-> ProfileB, C |-> ProfileC, D |-> ProfileD, E |-> ProfileE,
     F |-> ProfileF, G |-> ProfileG, H |-> ProfileH, T |-> ProfileT]
ProfileNames == {"A", "B", "C"}

(***************************************************************************)
(* Input records of the model                                              *)
(***************************************************************************)
Doi1 == <<"1", "/", "x">>
Doi2 == <<"2", "/", "y">>

\* {"DOI":"1/x","author":[{"given":"A","family":"B",
\*    "affiliation":[{"name":"O","id":[{"id":"r","id-type":"ror"}]}]}]}
RecordFull ==
    Obj([DOI |-> Str(Doi1),
         author |-> Arr(<<Obj([given |-> Str(<<"A">>), family |-> Str(<<"B">>),
                              affiliation |-> Arr(<<Obj(
                                  ("name" :> Str(<<"O">>)) @@
                                  ("id" :> Arr(<<Obj(("id" :> Str(<<"r">>)) @@
                                                     ("id-type" :> Str(<<"r","o","r">>)))>>))
                                  )>>)])>>)])

\* {"DOI":" 2/y","author":[{"given":"U"},{"affiliation":[{"name":"O"}]}]}: an
\* author whose name is the content of the unknown_author null, then an author
\* with no name (null fallback of the entity) whose affiliation has no id
\* (null default of the related value)
RecordSparse ==
    Obj([DOI |-> Str(<<" ">> \o Doi2),
         author |-> Arr(<<Obj([given |-> Str(UnknownContent)]),
                          Obj([affiliation |-> Arr(<<Obj([name |-> Str(<<"O">>)])>>)])>>)])

JsonLine(v) == [kind |-> "json", json |-> v]

Records == {RecordFull, RecordSparse}

NoFilters == <<>>

\* the contents of an input file: 1..MaxLines lines
LineSeqs == UNION {[1..n -> {JsonLine(r) : r \in Records}] : n \in 1..MaxLines}

\* one entry of files_to_process_with_filters: (file, profile, resolved filters)
FileSpecs == [profile : ProfileNames, filters : {NoFilters}, lines : LineSeqs]

(***************************************************************************)
(* main: the profiles of the run and the null registry                     *)
(***************************************************************************)
\* a resolution that keeps every task filter
keep_all_task_filters(profile_filters, task_filters) == task_filters

\* resolve_task_filters: the task filters whose key the profile defines
resolve_task_filters(profile_filters, task_filters) ==
    [key \in {k \in DOMAIN task_filters :
                 profile_filters.some /\ \E i \in DOMAIN profile_filters.val :
                                            profile_filters.val[i].cli_arg = k}
        |-> task_filters[key]]

\* all_profiles_in_run_vec: the profile files in the order the tasks name them
RECURSIVE profiles_in_order(_, _)
profiles_in_order(fs, seen) ==
    IF fs = <<>> THEN <<>>
    ELSE IF Head(fs).profile \in seen THEN profiles_in_order(Tail(fs), seen)
    ELSE <<Head(fs).profile>> \o profiles_in_order(Tail(fs), seen \cup {Head(fs).profile})

\* precompute_null_value_ids: [ok, map]; a key gets the value_prefix of the
\* first profile that declares it, a second declaration must be identical
RECURSIVE precompute_null_value_ids(_, _, _)
precompute_null_value_ids(profile_names, map, seen_configs) ==
    IF profile_names = <<>> THEN [ok |-> TRUE, map |-> map]
    ELSE LET profile == Profiles[Head(profile_names)]
             keys == DOMAIN profile.null_values
             old == keys \cap DOMAIN seen_configs
             new == keys \ DOMAIN seen_configs
         IN  IF \E key \in old : profile.null_values[key] # seen_configs[key]
             THEN [ok |-> FALSE, map |-> map]
             ELSE precompute_null_value_ids(Tail(profile_names),
                      [key \in new |->
                          generate_deterministic_id(profile.deterministic_ids.value_prefix,
                              profile.null_values[key].value_type \o <<":">>
                              \o profile.null_values[key].content)] @@ map,
                      [key \in new |-> profile.null_values[key]] @@ seen_configs)

\* (num_threads * 2).max(16)
channel_capacity == Max(NumThreads * 2, 16)

(***************************************************************************)
(* MultiTableCsvOutput                                                     *)
(* w = [tables, written_value_ids, written_process_value_rels,             *)
(*      written_value_value_rels, rows_written]                            *)
(***************************************************************************)
DATA_TABLE_NAMES ==
    {"records", "values", "process_record_relationships", "process_value_relationships",
     "record_value_relationships", "value_value_relationships"}

METADATA_TABLE_NAMES == {"sources", "processes", "source_process_relationships"}

ProcessValueRelKey(row) == <<row.process_id, row.value_id, row.relationship_type>>

ValueValueRelKey(row) ==
    <<row.source_value_id, row.target_value_id, row.relationship_type, row.ordinal>>

\* a writer that inserts the keys and writes every row all the same
rels_without_dedup(rows, written) ==
    [rows |-> rows, written |-> written \cup {ProcessValueRelKey(rows[i]) : i \in DOMAIN rows}]

\* the rows of a batch vector whose key was newly inserted, in batch order,
\* and the set after the insertions
RECURSIVE new_process_value_rels(_, _)
new_process_value_rels(rows, written) ==
    IF rows = <<>> THEN [rows |-> <<>>, written |-> written]
    ELSE LET key == ProcessValueRelKey(Head(rows))
             rest == new_process_value_rels(Tail(rows), written \cup {key})
         IN  IF key \in written THEN rest
             ELSE [rest EXCEPT !.rows = <<Head(rows)>> \o @]

RECURSIVE new_value_value_rels(_, _)
new_value_value_rels(rows, written) ==
    IF rows = <<>> THEN [rows |-> <<>>, written |-> written]
    ELSE LET key == ValueValueRelKey(Head(rows))
             rest == new_value_value_rels(Tail(rows), written \cup {key})
         IN  IF key \in written THEN rest
             ELSE [rest EXCEPT !.rows = <<Head(rows)>> \o @]

\* a writer that records the value_ids of a batch and writes none of its rows
values_recorded_not_written(rows, written) ==
    [rows |-> <<>>, written |-> written \cup {rows[i].value_id : i \in DOMAIN rows}]

\* a writer that dedups the values of a batch against the earlier batches
\* only, not against the rows of the batch itself
values_dedup_across_batches_only(rows, written) ==
    [rows |-> SelectSeq(rows, LAMBDA r : r.value_id \notin written),
     written |-> written \cup {rows[i].value_id : i \in DOMAIN rows}]

RECURSIVE new_values(_, _)
new_values(rows, written) ==
    IF rows = <<>> THEN [rows |-> <<>>, written |-> written]
    ELSE LET key == Head(rows).value_id
             rest == new_values(Tail(rows), written \cup {key})
         IN  IF key \in written THEN rest
             ELSE [rest EXCEPT !.rows = <<Head(rows)>> \o @]

\* a writer that puts the rows of a batch after the first row of the table
insert_rows_after_first(table, rows) ==
    IF table = <<>> THEN rows
    ELSE <<Head(table)>> \o rows \o Tail(table)

\* a writer that skips a row equal to one the table already holds
append_unseen_rows(table, rows) ==
    table \o SelectSeq(rows, LAMBDA r : \A i \in DOMAIN table : table[i] # r)

\* for row in rows { writer.write_record(row)? }: every row is written
append_rows(table, rows) == table \o rows

increment_row_count(rows_written, table_name, count) ==
    IF table_name \in DOMAIN rows_written
    THEN [rows_written EXCEPT ![table_name] = @ + count]
    ELSE rows_written

\* MultiTableCsvOutput::write_batch, every write succeeding
write_batch(w, batch) ==
    LET pv == new_process_value_rels(batch.process_value_relationships,
                                     w.written_process_value_rels)
        vv == new_value_value_rels(batch.value_value_relationships,
                                   w.written_value_value_rels)
        va == new_values(batch.values, w.written_value_ids)
        c1 == increment_row_count(w.rows_written, "records", Len(batch.records))
        c2 == increment_row_count(c1, "process_record_relationships",
                                  Len(batch.process_record_relationships))
        c3 == increment_row_count(c2, "process_value_relationships", Len(pv.rows))
        c4 == increment_row_count(c3, "record_value_relationships",
                                  Len(batch.record_value_relationships))
        c5 == increment_row_count(c4, "value_value_relationships", Len(vv.rows))
        c6 == increment_row_count(c5, "values", Len(va.rows))
    IN  [tables |->
            [records |-> append_rows(w.tables.records, batch.records),
             process_record_relationships |->
                 append_rows(w.tables.process_record_relationships,
                             batch.process_record_relationships),
             process_value_relationships |->
                 append_rows(w.tables.process_value_relationships, pv.rows),
             record_value_relationships |->
                 append_rows(w.tables.record_value_relationships,
                             batch.record_value_relationships),
             value_value_relationships |->
                 append_rows(w.tables.value_value_relationships, vv.rows),
             values |-> append_rows(w.tables.values, va.rows)],
         written_value_ids |-> va.written,
         written_process_value_rels |-> pv.written,
         written_value_value_rels |-> vv.written,
         rows_written |-> c6]

\* the order in which write_batch goes through the tables
TABLE_ORDER ==
    <<"records", "process_record_relationships", "process_value_relationships",
      "record_value_relationships", "value_value_relationships", "values">>

\* the rows that write_batch hands to the writer of the table TABLE_ORDER[t]
rows_to_write(w, batch, t) ==
    SubSeq(write_batch(w, batch).tables[TABLE_ORDER[t]],
           Len(w.tables[TABLE_ORDER[t]]) + 1,
           Len(write_batch(w, batch).tables[TABLE_ORDER[t]]))

\* MultiTableCsvOutput::write_batch returning Err from the write_record call
\* of row k + 1 of the table TABLE_ORDER[t]: the tables before it are
\* written and counted; for this table the keys of the whole batch vector
\* have been inserted into its written set, k rows are written and none is
\* counted; the tables after it are not reached
write_batch_failing(w, batch, t, k) ==
    LET full == write_batch(w, batch)
    IN  [tables |->
            [n \in DOMAIN w.tables |->
                IF \E i \in 1..(t - 1) : TABLE_ORDER[i] = n THEN full.tables[n]
                ELSE IF TABLE_ORDER[t] = n
                     THEN w.tables[n] \o SubSeq(rows_to_write(w, batch, t), 1, k)
                ELSE w.tables[n]],
         written_value_ids |->
             IF t >= 6 THEN full.written_value_ids ELSE w.written_value_ids,
         written_process_value_rels |->
             IF t >= 3 THEN full.written_process_value_rels
             ELSE w.written_process_value_rels,
         written_value_value_rels |->
             IF t >= 5 THEN full.written_value_value_rels ELSE w.written_value_value_rels,
         rows_written |->
            [n \in DOMAIN w.rows_written |->
                IF \E i \in 1..(t - 1) : TABLE_ORDER[i] = n THEN full.rows_written[n]
                ELSE w.rows_written[n]]]

\* all_profiles_in_run.iter().find_map(|p| p.null_values.get(null_key))
RECURSIVE find_null_config(_, _)
find_null_config(profile_names, null_key) ==
    IF profile_names = <<>> THEN None
    ELSE IF null_key \in DOMAIN Profiles[Head(profile_names)].null_values
         THEN Some(Profiles[Head(profile_names)].null_values[null_key])
    ELSE find_null_config(Tail(profile_names), null_key)

\* a finalization pass that appends nothing
finalize_appends_nothing(w, keys, null_value_ids, profile_names) == w

\* MultiTableCsvOutput::finalize over the null keys in the order `keys` (the
\* iteration order of the HashMap)
RECURSIVE finalize(_, _, _, _)
finalize(w, keys, null_value_ids, profile_names) ==
    IF keys = <<>> THEN w
    ELSE LET null_key == Head(keys)
             value_id == null_value_ids[null_key]
             config == find_null_config(profile_names, null_key)
             w1 == IF value_id \in w.written_value_ids THEN w
                   ELSE IF config.some
                        THEN [w EXCEPT
                                !.written_value_ids = @ \cup {value_id},
                                !.tables.values =
                                    Append(@, [value_id |-> value_id,
                                               value_type |-> config.val.value_type,
                                               value_content |-> config.val.content]),
                                !.rows_written = increment_row_count(@, "values", 1)]
                        ELSE [w EXCEPT !.written_value_ids = @ \cup {value_id}]
         IN  finalize(w1, Tail(keys), null_value_ids, profile_names)

\* MultiTableCsvOutput::finalize returning Err from the write_record call of
\* the null key keys[j]: the keys before it are handled, the value_id of
\* keys[j] has been inserted into written_value_ids and its row is not
\* written; the keys after it are not reached
finalize_failing(w, keys, j, null_value_ids, profile_names) ==
    [finalize(w, SubSeq(keys, 1, j - 1), null_value_ids, profile_names) EXCEPT
        !.written_value_ids = @ \cup {null_value_ids[keys[j]]}]

\* the rows MultiTableCsvOutput::new writes to the metadata tables
RECURSIVE metadata_rows(_, _, _, _)
metadata_rows(profile_names, seen_source_ids, seen_process_ids, m) ==
    IF profile_names = <<>> THEN m
    ELSE LET profile == Profiles[Head(profile_names)]
             source_id == profile.source_info.source_id
             process_id == profile.process_info.process_id
             m1 == IF source_id \in seen_source_ids THEN m
                   ELSE [m EXCEPT !.sources = Append(@, [source_id |-> source_id])]
             m2 == IF process_id \in seen_process_ids THEN m1
                   ELSE [m1 EXCEPT !.processes = Append(@, [process_id |-> process_id])]
             m3 == [m2 EXCEPT !.source_process_relationships =
                       Append(@, [source_process_id |-> [meta |-> Len(@)],
                                  source_id |-> source_id, process_id |-> process_id,
                                  relationship_type |-> "defined_by"])]
         IN  metadata_rows(Tail(profile_names), seen_source_ids \cup {source_id},
                           seen_process_ids \cup {process_id}, m3)

EmptyMetadata == [sources |-> <<>>, processes |-> <<>>, source_process_relationships |-> <<>>]

(***************************************************************************)
(* The pipeline: main, the worker pool, the queue, the writer thread       *)
(***************************************************************************)
VARIABLES
    files,                  \* files_to_process_with_filters
    create_metadata_files,  \* cli.create_metadata_files
    record_id_map,          \* DashMap primary id -> record_id
    value_id_map,           \* DashMap (value_type, content) -> value_id
    work,                   \* per file: status, next line, the batch so far
    queue,                  \* the bounded channel of batches
    sender_dropped,         \* main has dropped batch_sender (all clones are gone)
    wpc,                    \* the writer thread's position
    w,                      \* the MultiTableCsvOutput
    headers,                \* the table files created, each with its header
    metadata,               \* the rows of the metadata tables
    mainpc,                 \* main's position
    summary,                \* what main collected: counts and exit status
    hashing                 \* two (value_type, content) pairs and the ids generated for them

vars == <<files, create_metadata_files, record_id_map, value_id_map, work, queue,
          sender_dropped, wpc, w, headers, metadata, mainpc, summary, hashing>>

\* the indices of files_to_process_with_filters
FileIds == DOMAIN files

all_profiles_in_run == profiles_in_order(files, {})

\* Arc<HashMap<String, String>>: built once in main before any thread starts
null_value_ids == precompute_null_value_ids(all_profiles_in_run, <<>>, <<>>).map

\* JsonlProcessor::new for the file f
processor(f) ==
    [profile |-> Profiles[files[f].profile], null_value_ids |-> null_value_ids,
     active_filters |-> files[f].filters, file |-> f]

NewWriter ==
    [tables |-> EmptyBatch, written_value_ids |-> {},
     written_process_value_rels |-> {}, written_value_value_rels |-> {},
     rows_written |-> [n \in {} |-> 0]]

NoSummary ==
    [successful_files_count |-> 0, files_with_errors |-> {}, final_row_counts |-> None,
     exit_code |-> 0]

\* no call of generate_value_id is being looked at
NoHashing == [left |-> None, right |-> None, left_id |-> None, right_id |-> None]

Init ==
    /\ files \in [1..MaxFiles -> FileSpecs]
    /\ create_metadata_files \in BOOLEAN
    /\ precompute_null_value_ids(profiles_in_order(files, {}), <<>>, <<>>).ok
    /\ record_id_map = <<>>
    /\ value_id_map = <<>>
    /\ work = [f \in FileIds |-> [status |-> "pending", line |-> 1, batch |-> EmptyBatch]]
    /\ queue = <<>>
    /\ sender_dropped = FALSE
    /\ wpc = "new"
    /\ w = NewWriter
    /\ headers = {}
    /\ metadata = EmptyMetadata
    /\ mainpc = "processing"
    /\ summary = NoSummary
    /\ hashing = NoHashing

\* a pool thread takes the next file: File::open succeeds, the batch is empty
StartFile(f) ==
    /\ mainpc = "processing"
    /\ work[f].status = "pending"
    /\ Cardinality({g \in FileIds : work[g].status = "running"}) < NumThreads
    /\ work' = [work EXCEPT ![f].status = "running"]
    /\ UNCHANGED <<hashing, files, create_metadata_files, record_id_map, value_id_map, queue,
                   sender_dropped, wpc, w, headers, metadata, mainpc, summary>>

\* the worker of file f keeps the result r of one line
StoreLine(f, r) ==
    /\ work' = [work EXCEPT ![f].line = @ + 1, ![f].batch = r.batch]
    /\ record_id_map' = r.record_id_map
    /\ value_id_map' = r.value_id_map

\* one iteration of the loop over the lines of the file
ProcessLine(f) ==
    /\ work[f].status = "running"
    /\ work[f].line <= Len(files[f].lines)
    /\ StoreLine(f, process_line(processor(f), files[f].lines[work[f].line],
                                 [batch |-> work[f].batch, record_id_map |-> record_id_map,
                                  value_id_map |-> value_id_map]))
    /\ UNCHANGED <<hashing, files, create_metadata_files, queue, sender_dropped, wpc, w, headers,
                   metadata, mainpc, summary>>

\* a send that takes the batch although the receiver is gone
FinishFileSendsToClosedQueue(f) ==
    /\ work[f].status = "running"
    /\ work[f].line > Len(files[f].lines)
    /\ IF is_empty(work[f].batch)
       THEN queue' = queue
       ELSE /\ Len(queue) < channel_capacity
            /\ queue' = Append(queue, work[f].batch)
    /\ work' = [work EXCEPT ![f].status = "ok"]
    /\ UNCHANGED <<hashing, files, create_metadata_files, record_id_map, value_id_map,
                   sender_dropped, wpc, w, headers, metadata, mainpc, summary>>

\* a worker that sends the batch of every file, empty or not
FinishFileSendsEmptyBatch(f) ==
    /\ work[f].status = "running"
    /\ work[f].line > Len(files[f].lines)
    /\ Len(queue) < channel_capacity
    /\ queue' = Append(queue, work[f].batch)
    /\ work' = [work EXCEPT ![f].status = "ok"]
    /\ UNCHANGED <<hashing, files, create_metadata_files, record_id_map, value_id_map,
                   sender_dropped, wpc, w, headers, metadata, mainpc, summary>>

\* process returned Ok(batch): a non-empty batch is sent (the send waits while
\* the queue is full), an empty one is not; the file is done.  When the
\* receiver is gone (the writer thread has panicked) the send returns Err and
\* the file is an error
FinishFile(f) ==
    /\ work[f].status = "running"
    /\ work[f].line > Len(files[f].lines)
    /\ IF is_empty(work[f].batch)
       THEN /\ queue' = queue
            /\ work' = [work EXCEPT ![f].status = "ok"]
       ELSE IF wpc = "panicked"
       THEN /\ queue' = queue
            /\ work' = [work EXCEPT ![f].status = "failed"]
       ELSE /\ Len(queue) < channel_capacity
            /\ queue' = Append(queue, work[f].batch)
            /\ work' = [work EXCEPT ![f].status = "ok"]
    /\ UNCHANGED <<hashing, files, create_metadata_files, record_id_map, value_id_map,
                   sender_dropped, wpc, w, headers, metadata, mainpc, summary>>

\* CsvWriterManager::new: the six data tables are created with their headers,
\* and with --create-metadata-files the metadata tables are written
WriterNew ==
    /\ wpc = "new"
    /\ headers' = DATA_TABLE_NAMES \cup
                  (IF create_metadata_files THEN METADATA_TABLE_NAMES ELSE {})
    /\ metadata' = IF create_metadata_files
                   THEN metadata_rows(all_profiles_in_run, {}, {}, EmptyMetadata)
                   ELSE metadata
    /\ w' = [w EXCEPT !.rows_written =
                [n \in DATA_TABLE_NAMES \cup
                       (IF create_metadata_files THEN METADATA_TABLE_NAMES ELSE {}) |->
                    IF n \in DATA_TABLE_NAMES THEN 0
                    ELSE Len(metadata_rows(all_profiles_in_run, {}, {}, EmptyMetadata)[n])]]
    /\ wpc' = "recv"
    /\ UNCHANGED <<hashing, files, create_metadata_files, record_id_map, value_id_map, work, queue,
                   sender_dropped, mainpc, summary>>

\* a receiver that loses the batch it takes from the queue
WriterRecvLosesBatch ==
    /\ wpc = "recv"
    /\ queue # <<>>
    /\ w' = w
    /\ queue' = Tail(queue)
    /\ UNCHANGED <<hashing, files, create_metadata_files, record_id_map, value_id_map, work,
                   sender_dropped, wpc, headers, metadata, mainpc, summary>>

\* for batch in batch_receiver: a non-empty batch is written
WriterRecv ==
    /\ wpc = "recv"
    /\ queue # <<>>
    /\ w' = IF is_empty(Head(queue)) THEN w ELSE write_batch(w, Head(queue))
    /\ queue' = Tail(queue)
    /\ UNCHANGED <<hashing, files, create_metadata_files, record_id_map, value_id_map, work,
                   sender_dropped, wpc, headers, metadata, mainpc, summary>>

\* a writer that stops receiving as soon as it finds the queue empty
WriterFlushOnEmptyQueue ==
    /\ wpc = "recv"
    /\ queue = <<>>
    /\ wpc' = "finalize"
    /\ UNCHANGED <<hashing, files, create_metadata_files, record_id_map, value_id_map, work, queue,
                   sender_dropped, w, headers, metadata, mainpc, summary>>

\* the receiver's iteration ends: the queue is empty and every sender is gone;
\* flush_all
WriterFlush ==
    /\ wpc = "recv"
    /\ queue = <<>>
    /\ sender_dropped
    /\ wpc' = "finalize"
    /\ UNCHANGED <<hashing, files, create_metadata_files, record_id_map, value_id_map, work, queue,
                   sender_dropped, w, headers, metadata, mainpc, summary>>

\* the orders in which the keys of a HashMap may be iterated
Orderings(S) ==
    {o \in [1..Cardinality(S) -> S] : \A i, j \in 1..Cardinality(S) : i # j => o[i] # o[j]}

\* finalize_output, then the thread returns Ok(csv_writer_manager)
WriterFinalize ==
    /\ wpc = "finalize"
    /\ \E keys \in Orderings(DOMAIN null_value_ids) :
          w' = finalize(w, keys, null_value_ids, all_profiles_in_run)
    /\ wpc' = "done"
    /\ UNCHANGED <<hashing, files, create_metadata_files, record_id_map, value_id_map, work, queue,
                   sender_dropped, headers, metadata, mainpc, summary>>

\* a main that counts as failed only the files that could not be opened, not
\* those whose batch could not be sent
MainCollectOpenFailuresOnly ==
    /\ mainpc = "processing"
    /\ \A f \in FileIds : work[f].status \in {"ok", "failed", "no_file"}
    /\ sender_dropped' = TRUE
    /\ summary' = [summary EXCEPT
                     !.successful_files_count =
                         Cardinality({f \in FileIds : work[f].status = "ok"}),
                     !.files_with_errors =
                         {f \in FileIds : work[f].status = "failed" /\ is_empty(work[f].batch)}]
    /\ mainpc' = "join"
    /\ UNCHANGED <<hashing, files, create_metadata_files, record_id_map, value_id_map, work, queue,
                   wpc, w, headers, metadata>>

\* a main that keeps batch_sender alive while it joins the writer thread
MainCollectKeepsSender ==
    /\ mainpc = "processing"
    /\ \A f \in FileIds : work[f].status \in {"ok", "failed", "no_file"}
    /\ sender_dropped' = FALSE
    /\ summary' = [summary EXCEPT
                     !.successful_files_count =
                         Cardinality({f \in FileIds : work[f].status = "ok"}),
                     !.files_with_errors = {f \in FileIds : work[f].status = "failed"}]
    /\ mainpc' = "join"
    /\ UNCHANGED <<hashing, files, create_metadata_files, record_id_map, value_id_map, work, queue,
                   wpc, w, headers, metadata>>

\* par_iter().collect() has returned: drop(batch_sender), count the results
MainCollect ==
    /\ mainpc = "processing"
    /\ \A f \in FileIds : work[f].status \in {"ok", "failed", "no_file"}
    /\ sender_dropped' = TRUE
    /\ summary' = [summary EXCEPT
                     !.successful_files_count =
                         Cardinality({f \in FileIds : work[f].status = "ok"}),
                     !.files_with_errors = {f \in FileIds : work[f].status = "failed"}]
    /\ mainpc' = "join"
    /\ UNCHANGED <<hashing, files, create_metadata_files, record_id_map, value_id_map, work, queue,
                   wpc, w, headers, metadata>>

\* a main that reports success whatever the files did
MainJoinExitsZero ==
    /\ mainpc = "join"
    /\ wpc \in {"done", "panicked"}
    /\ summary' = [summary EXCEPT
                     !.final_row_counts = IF wpc = "done" THEN Some(w.rows_written) ELSE None,
                     !.exit_code = 0]
    /\ mainpc' = "exit"
    /\ UNCHANGED <<hashing, files, create_metadata_files, record_id_map, value_id_map, work, queue,
                   sender_dropped, wpc, w, headers, metadata>>

\* writer_thread.join() returns when the thread has ended, normally or in a
\* panic; then the final summary and the exit status
MainJoin ==
    /\ mainpc = "join"
    /\ wpc \in {"done", "panicked"}
    /\ summary' = [summary EXCEPT
                     !.final_row_counts = IF wpc = "done" THEN Some(w.rows_written) ELSE None,
                     !.exit_code = IF summary.files_with_errors # {} THEN 1 ELSE 0]
    /\ mainpc' = "exit"
    /\ UNCHANGED <<hashing, files, create_metadata_files, record_id_map, value_id_map, work, queue,
                   sender_dropped, wpc, w, headers, metadata>>

Next ==
    \/ \E f \in FileIds : StartFile(f)
    \/ \E f \in FileIds : ProcessLine(f)
    \/ \E f \in FileIds : FinishFile(f)
    \/ WriterNew
    \/ WriterRecv
    \/ WriterFlush
    \/ WriterFinalize
    \/ MainCollect
    \/ MainJoin

Spec == Init /\ [][Next]_vars

(***************************************************************************)
(* generate_value_id as a function of (value_type, content)                *)
(***************************************************************************)
\* the length of the value types and contents that are hashed
MaxHashLen == 2

\* the characters of the value types and contents that are hashed
HashChars == {"a", ":"}

\* the non-empty strings over HashChars of at most MaxHashLen characters
HashStrings == UNION {[1..n -> HashChars] : n \in 1..MaxHashLen}

\* (value_type, content) as get_or_create_value_id passes them on
HashPairs == [value_type : HashStrings, content : HashStrings]

\* the rest of the program is at rest: nothing has been read or written
PipelineAtRest ==
    /\ files = [f \in 1..MaxFiles |->
                   [profile |-> "A", filters |-> NoFilters, lines |-> <<JsonLine(RecordFull)>>]]
    /\ create_metadata_files = FALSE
    /\ record_id_map = <<>>
    /\ value_id_map = <<>>
    /\ work = [f \in FileIds |-> [status |-> "pending", line |-> 1, batch |-> EmptyBatch]]
    /\ queue = <<>>
    /\ sender_dropped = FALSE
    /\ wpc = "new"
    /\ w = NewWriter
    /\ headers = {}
    /\ metadata = EmptyMetadata
    /\ mainpc = "processing"
    /\ summary = NoSummary

HashInit ==
    /\ PipelineAtRest
    /\ \E l, r \in HashPairs :
          hashing = [left |-> Some(l), right |-> Some(r), left_id |-> None, right_id |-> None]

\* self.generate_value_id(value_type, content) for the left pair
GenerateLeftValueId ==
    /\ hashing.left.some /\ ~hashing.left_id.some
    /\ hashing' = [hashing EXCEPT !.left_id =
                      Some(generate_value_id(processor(1), hashing.left.val.value_type,
                                             hashing.left.val.content))]
    /\ UNCHANGED <<files, create_metadata_files, record_id_map, value_id_map, work, queue,
                   sender_dropped, wpc, w, headers, metadata, mainpc, summary>>

\* self.generate_value_id(value_type, content) for the right pair
GenerateRightValueId ==
    /\ hashing.right.some /\ ~hashing.right_id.some
    /\ hashing' = [hashing EXCEPT !.right_id =
                      Some(generate_value_id(processor(1), hashing.right.val.value_type,
                                             hashing.right.val.content))]
    /\ UNCHANGED <<files, create_metadata_files, record_id_map, value_id_map, work, queue,
                   sender_dropped, wpc, w, headers, metadata, mainpc, summary>>

HashNext == GenerateLeftValueId \/ GenerateRightValueId

HashSpec == HashInit /\ [][HashNext]_vars

(***************************************************************************)
(* Runs over lines that are skipped, filtered or only partly extracted     *)
(***************************************************************************)
\* {"DOI":"2/y","author":[{"given":"A","affiliation":[{"name":"O"},{},{"name":"P"}]}]}:
\* the second affiliation has no name and the entity no null fallback
RecordGappy ==
    Obj([DOI |-> Str(Doi2),
         author |-> Arr(<<Obj([given |-> Str(<<"A">>),
                              affiliation |-> Arr(<<Obj([name |-> Str(<<"O">>)]),
                                                    Obj(<<>>),
                                                    Obj([name |-> Str(<<"P">>)])>>)])>>)])

\* records without a usable identifier: no DOI, a DOI that is a number, a DOI
\* that is empty after trimming; each has the prefix "1" and the author "Z",
\* whom no other record has
RecordNoDoi ==
    Obj([prefix |-> Str(<<"1">>), author |-> Arr(<<Obj([given |-> Str(<<"Z">>)])>>)])
RecordNumDoi ==
    Obj([DOI |-> Num(<<"5">>), prefix |-> Str(<<"1">>),
         author |-> Arr(<<Obj([given |-> Str(<<"Z">>)])>>)])
RecordBlankDoi ==
    Obj([DOI |-> Str(<<" ", " ">>), prefix |-> Str(<<"1">>),
         author |-> Arr(<<Obj([given |-> Str(<<"Z">>)])>>)])

RecordsWithoutId == {RecordNoDoi, RecordNumDoi, RecordBlankDoi}

\* a line that is empty after trimming, a line that is not JSON
BlankLine == [kind |-> "blank"]
BadLine == [kind |-> "bad"]

InputLines ==
    {JsonLine(r) : r \in {RecordFull, RecordGappy} \cup RecordsWithoutId} \cup {BlankLine, BadLine}

InputLineSeqs == UNION {[1..n -> InputLines] : n \in 1..MaxLines}

\* task.filters of the run configuration: none, a prefix that RecordFull has,
\* a key the profiles do not define, and that key with the prefix of RecordGappy
TaskFilterSets ==
    {<<>>,
     [k \in {"doi_prefix"} |-> <<"1">>],
     [k \in {"unknown_key"} |-> <<"x">>],
     [k \in {"doi_prefix", "unknown_key"} |-> IF k = "doi_prefix" THEN <<"2">> ELSE <<"x">>]}

\* the first file of the run varies; the others are read under the profile
\* whose identifier is not required and hold a record without identifier
\* followed by a full record
InputInit ==
    /\ \E p \in {"A", "E"}, tf \in TaskFilterSets, ls \in InputLineSeqs :
          files = [f \in 1..MaxFiles |->
                      IF f = 1
                      THEN [profile |-> p, task_filters |-> tf,
                            filters |-> resolve_task_filters(Profiles[p].filters, tf),
                            lines |-> ls]
                      ELSE [profile |-> "E", task_filters |-> <<>>,
                            filters |-> resolve_task_filters(ProfileE.filters, <<>>),
                            lines |-> <<JsonLine(RecordNoDoi), JsonLine(RecordFull)>>]]
    /\ create_metadata_files = FALSE
    /\ precompute_null_value_ids(profiles_in_order(files, {}), <<>>, <<>>).ok
    /\ record_id_map = <<>>
    /\ value_id_map = <<>>
    /\ work = [f \in FileIds |-> [status |-> "pending", line |-> 1, batch |-> EmptyBatch]]
    /\ queue = <<>>
    /\ sender_dropped = FALSE
    /\ wpc = "new"
    /\ w = NewWriter
    /\ headers = {}
    /\ metadata = EmptyMetadata
    /\ mainpc = "processing"
    /\ summary = NoSummary
    /\ hashing = NoHashing

InputSpec == InputInit /\ [][Next]_vars

(***************************************************************************)
(* Runs from the null registry on: profiles that may disagree on a null    *)
(***************************************************************************)
\* one task per entry, under a profile that agrees with the others on the
\* null keys (A, B) or does not (D); find_jsonl_gz_files finds the file of the
\* task (found) or no file at all
ConfigFileSpecs ==
    [profile : {"A", "B", "D"}, filters : {NoFilters},
     lines : {<<JsonLine(RecordFull)>>, <<JsonLine(RecordSparse)>>},
     found : BOOLEAN]

\* main has loaded the profiles and scanned the input directories; no thread
\* is started
ConfigInit ==
    /\ files \in [1..MaxFiles -> ConfigFileSpecs]
    /\ create_metadata_files = FALSE
    /\ record_id_map = <<>>
    /\ value_id_map = <<>>
    /\ work = [f \in FileIds |-> [status |-> "pending", line |-> 1, batch |-> EmptyBatch]]
    /\ queue = <<>>
    /\ sender_dropped = FALSE
    /\ wpc = "unspawned"
    /\ w = NewWriter
    /\ headers = {}
    /\ metadata = EmptyMetadata
    /\ mainpc = "precompute"
    /\ summary = NoSummary
    /\ hashing = NoHashing

\* files_to_process_with_filters is empty: main warns and returns Ok(()).
\* Otherwise precompute_null_value_ids(&all_profiles_in_run_vec)?: on Err main
\* returns the error (exit status 1); on Ok the writer thread is spawned and
\* the files that were found are handed to the pool
MainPrecompute ==
    /\ mainpc = "precompute"
    /\ IF \A f \in FileIds : ~files[f].found
       THEN /\ mainpc' = "exit"
            /\ UNCHANGED <<wpc, summary, work>>
       ELSE IF precompute_null_value_ids(all_profiles_in_run, <<>>, <<>>).ok
       THEN /\ mainpc' = "processing"
            /\ wpc' = "new"
            /\ work' = [f \in FileIds |->
                           IF files[f].found THEN work[f]
                           ELSE [work[f] EXCEPT !.status = "no_file"]]
            /\ summary' = summary
       ELSE /\ mainpc' = "fatal"
            /\ summary' = [summary EXCEPT !.exit_code = 1]
            /\ UNCHANGED <<wpc, work>>
    /\ UNCHANGED <<hashing, files, create_metadata_files, record_id_map, value_id_map,
                   queue, sender_dropped, w, headers, metadata>>

ConfigNext == MainPrecompute \/ Next

ConfigSpec == ConfigInit /\ [][ConfigNext]_vars

(***************************************************************************)
(* Runs with faults: files that cannot be opened, a writer that panics     *)
(***************************************************************************)
\* a file of one record, or of one blank line (its batch is empty)
FaultFileSpecs ==
    [profile : {"A"}, filters : {NoFilters},
     lines : {<<JsonLine(RecordFull)>>, <<JsonLine(RecordSparse)>>, <<BlankLine>>}]

FaultInit ==
    /\ files \in [1..MaxFiles -> FaultFileSpecs]
    /\ create_metadata_files = FALSE
    /\ record_id_map = <<>>
    /\ value_id_map = <<>>
    /\ work = [f \in FileIds |-> [status |-> "pending", line |-> 1, batch |-> EmptyBatch]]
    /\ queue = <<>>
    /\ sender_dropped = FALSE
    /\ wpc = "new"
    /\ w = NewWriter
    /\ headers = {}
    /\ metadata = EmptyMetadata
    /\ mainpc = "processing"
    /\ summary = NoSummary
    /\ hashing = NoHashing

\* File::open fails: process returns Err((path, e)) and the task returns it
FileOpenFails(f) ==
    /\ mainpc = "processing"
    /\ work[f].status = "pending"
    /\ Cardinality({g \in FileIds : work[g].status = "running"}) < NumThreads
    /\ work' = [work EXCEPT ![f].status = "failed"]
    /\ UNCHANGED <<hashing, files, create_metadata_files, record_id_map, value_id_map, queue,
                   sender_dropped, wpc, w, headers, metadata, mainpc, summary>>

\* the writer thread panics, at start-up, between or in the writing of
\* batches, or in flush and finalization: the thread unwinds, the receiver
\* and the batches still queued are dropped
WriterPanics ==
    /\ wpc \in {"new", "recv", "finalize"}
    /\ wpc' = "panicked"
    /\ queue' = <<>>
    /\ UNCHANGED <<hashing, files, create_metadata_files, record_id_map, value_id_map, work,
                   sender_dropped, w, headers, metadata, mainpc, summary>>

FaultNext ==
    \/ Next
    \/ \E f \in FileIds : FileOpenFails(f)
    \/ WriterPanics

FaultSpec == FaultInit /\ [][FaultNext]_vars

\* the pool threads are scheduled: a thread that can take a file, handle a
\* line or finish a file eventually does
WorkerStep ==
    \E f \in FileIds : StartFile(f) \/ FileOpenFails(f) \/ ProcessLine(f) \/ FinishFile(f)

\* the guards of the worker steps: a pending file and a free thread, a running
\* file with a line to handle, or a file that can be finished
WorkerCanStep ==
    \E f \in FileIds :
        \/ /\ mainpc = "processing"
           /\ work[f].status = "pending"
           /\ Cardinality({g \in FileIds : work[g].status = "running"}) < NumThreads
        \/ /\ work[f].status = "running"
           /\ work[f].line <= Len(files[f].lines)
        \/ ENABLED FinishFile(f)

\* weak fairness of WorkerStep, its enabling condition written out
FaultLiveSpec == FaultSpec /\ ([]<>(~WorkerCanStep) \/ []<><<WorkerStep>>_vars)

(***************************************************************************)
(* Runs over files that cannot be opened or are not gzip streams           *)
(***************************************************************************)
\* a line whose read returns Err: what the BufReader over the GzDecoder
\* yields when the bytes of the file are not a gzip stream
ReadErrorLine == [kind |-> "read_error"]

\* a file of one or two records, or a file that is not gzip: GzDecoder::new
\* itself cannot fail, every read of a line fails
OpenFileSpecs ==
    [profile : {"A"}, filters : {NoFilters},
     lines : {<<JsonLine(RecordFull)>>, <<JsonLine(RecordSparse), JsonLine(RecordFull)>>,
              <<ReadErrorLine>>, <<ReadErrorLine, ReadErrorLine>>}]

OpenInit ==
    /\ files \in [1..MaxFiles -> OpenFileSpecs]
    /\ create_metadata_files = FALSE
    /\ record_id_map = <<>>
    /\ value_id_map = <<>>
    /\ work = [f \in FileIds |-> [status |-> "pending", line |-> 1, batch |-> EmptyBatch]]
    /\ queue = <<>>
    /\ sender_dropped = FALSE
    /\ wpc = "new"
    /\ w = NewWriter
    /\ headers = {}
    /\ metadata = EmptyMetadata
    /\ mainpc = "processing"
    /\ summary = NoSummary
    /\ hashing = NoHashing

OpenNext ==
    \/ Next
    \/ \E f \in FileIds : FileOpenFails(f)

OpenSpec == OpenInit /\ [][OpenNext]_vars

(***************************************************************************)
(* Runs with more files than the queue can hold                            *)
(***************************************************************************)
\* enough files to fill the queue after the writer has received one batch
\* and still have a worker with a batch to send
QueueFileCount == channel_capacity + 2

\* every file holds one record, so that every file has a batch to send
QueueInit ==
    /\ \E r \in Records :
          files = [f \in 1..QueueFileCount |->
                      [profile |-> "A", filters |-> NoFilters, lines |-> <<JsonLine(r)>>]]
    /\ create_metadata_files = FALSE
    /\ record_id_map = <<>>
    /\ value_id_map = <<>>
    /\ work = [f \in FileIds |-> [status |-> "pending", line |-> 1, batch |-> EmptyBatch]]
    /\ queue = <<>>
    /\ sender_dropped = FALSE
    /\ wpc = "new"
    /\ w = NewWriter
    /\ headers = {}
    /\ metadata = EmptyMetadata
    /\ mainpc = "processing"
    /\ summary = NoSummary
    /\ hashing = NoHashing

\* one schedule of the pool: the files are taken in the order of the list,
\* the next one when the one before it is finished
StartFileInOrder(f) ==
    /\ \A g \in FileIds : g < f => work[g].status = "ok"
    /\ StartFile(f)

QueueNext ==
    \/ \E f \in FileIds : StartFileInOrder(f)
    \/ \E f \in FileIds : ProcessLine(f)
    \/ \E f \in FileIds : FinishFile(f)
    \/ WriterNew
    \/ WriterRecv
    \/ WriterFlush
    \/ WriterFinalize
    \/ MainCollect
    \/ MainJoin

QueueSpec == QueueInit /\ [][QueueNext]_vars

(***************************************************************************)
(* Runs over records that exercise the traversal: abandoned items, an      *)
(* entity without value_extraction, related values with and without        *)
(* filter_condition, use_null and take_first_match                         *)
(***************************************************************************)
\* one item of an "id" array
IdItem(id, id_type) == Obj(("id" :> Str(id)) @@ ("id-type" :> Str(id_type)))
Ror == <<"r", "o", "r">>

\* a record of one author "A" with the given affiliation array, position and
\* funder array
RecordOf(doi, affiliation, position, funder) ==
    Obj([DOI |-> Str(doi),
         author |-> Arr(<<Obj([given |-> Str(<<"A">>), affiliation |-> Arr(affiliation),
                              position |-> position])>>),
         funder |-> Arr(funder)])

\* the second affiliation has no name but an id "q"; a position with a
\* department and a tag; a funder
RecordAbandoned ==
    RecordOf(Doi1,
             <<Obj(("name" :> Str(<<"O">>)) @@ ("id" :> Arr(<<IdItem(<<"r">>, Ror)>>))),
               Obj([id |-> Arr(<<IdItem(<<"q">>, Ror)>>)]),
               Obj(("name" :> Str(<<"P">>)) @@ ("id" :> Arr(<<IdItem(<<"s">>, Ror)>>)))>>,
             Obj([dept |-> Arr(<<Obj([name |-> Str(<<"D">>)])>>),
                  tag |-> Arr(<<Obj([t |-> Str(<<"T">>)])>>)]),
             <<Obj([name |-> Str(<<"F">>)])>>)

\* ids: a DOI, a ROR item without id, then two ROR items
RecordManyIds ==
    RecordOf(Doi2,
             <<Obj(("name" :> Str(<<"O">>)) @@
                   ("id" :> Arr(<<IdItem(<<"d">>, <<"d", "o", "i">>),
                                  Obj(("id-type" :> Str(Ror))),
                                  IdItem(<<"r">>, <<"R", "O", "R">>),
                                  IdItem(<<"s">>, Ror)>>)))>>,
             Obj([tag |-> Arr(<<Obj([t |-> Str(<<"T">>)]), Obj([t |-> Str(<<"V">>)])>>)]),
             <<>>)

\* ids: two ROR items, both with an id
RecordTwoRors ==
    RecordOf(Doi2,
             <<Obj(("name" :> Str(<<"O">>)) @@
                   ("id" :> Arr(<<IdItem(<<"r">>, Ror), IdItem(<<"s">>, Ror)>>)))>>,
             Obj(<<>>),
             <<>>)

\* the paths "id" and "tag" exist and are empty arrays
RecordEmptyArrays ==
    RecordOf(Doi1,
             <<Obj(("name" :> Str(<<"O">>)) @@ ("id" :> Arr(<<>>)))>>,
             Obj([tag |-> Arr(<<>>)]),
             <<>>)

\* the paths "id" and "tag" exist and are strings, not arrays
RecordNotArrays ==
    RecordOf(Doi1,
             <<Obj(("name" :> Str(<<"O">>)) @@ ("id" :> Str(<<"r">>)))>>,
             Obj([tag |-> Str(<<"T">>)]),
             <<>>)

\* the paths "id" and "tag" do not exist
RecordNoPaths ==
    RecordOf(Doi2, <<Obj([name |-> Str(<<"O">>)])>>, Obj(<<>>), <<>>)

ExtractRecords ==
    {RecordAbandoned, RecordManyIds, RecordTwoRors, RecordEmptyArrays, RecordNotArrays,
     RecordNoPaths}

\* the first file holds one or two of the records, every other file one
ExtractInit ==
    /\ \E ls \in UNION {[1..n -> {JsonLine(r) : r \in ExtractRecords}] : n \in 1..MaxLines} :
       \E r \in ExtractRecords :
          files = [f \in 1..MaxFiles |->
                      [profile |-> "F", filters |-> NoFilters,
                       lines |-> IF f = 1 THEN ls ELSE <<JsonLine(r)>>]]
    /\ create_metadata_files = FALSE
    /\ record_id_map = <<>>
    /\ value_id_map = <<>>
    /\ work = [f \in FileIds |-> [status |-> "pending", line |-> 1, batch |-> EmptyBatch]]
    /\ queue = <<>>
    /\ sender_dropped = FALSE
    /\ wpc = "new"
    /\ w = NewWriter
    /\ headers = {}
    /\ metadata = EmptyMetadata
    /\ mainpc = "processing"
    /\ summary = NoSummary
    /\ hashing = NoHashing

ExtractSpec == ExtractInit /\ [][Next]_vars

(***************************************************************************)
(* Runs in which writes of the writer thread fail with an I/O error        *)
(***************************************************************************)
\* a writer thread that ends at the first batch it cannot write: the receiver
\* and the batches still queued are dropped
WriterRecvIoErrorStops ==
    /\ wpc = "recv"
    /\ queue # <<>>
    /\ ~is_empty(Head(queue))
    /\ \E t \in DOMAIN TABLE_ORDER :
          \E k \in 0..(Len(rows_to_write(w, Head(queue), t)) - 1) :
              w' = write_batch_failing(w, Head(queue), t, k)
    /\ queue' = <<>>
    /\ wpc' = "panicked"
    /\ UNCHANGED <<hashing, files, create_metadata_files, record_id_map, value_id_map, work,
                   sender_dropped, headers, metadata, mainpc, summary>>

\* write_batch returns Err part-way through the batch it received: the
\* thread logs the error and goes on with the loop over the receiver
WriterRecvIoError ==
    /\ wpc = "recv"
    /\ queue # <<>>
    /\ ~is_empty(Head(queue))
    /\ \E t \in DOMAIN TABLE_ORDER :
          \E k \in 0..(Len(rows_to_write(w, Head(queue), t)) - 1) :
              w' = write_batch_failing(w, Head(queue), t, k)
    /\ queue' = Tail(queue)
    /\ UNCHANGED <<hashing, files, create_metadata_files, record_id_map, value_id_map, work,
                   sender_dropped, wpc, headers, metadata, mainpc, summary>>

\* finalize_output returns Err at one of the null rows: the thread logs the
\* error and returns Ok(csv_writer_manager) all the same
WriterFinalizeIoError ==
    /\ wpc = "finalize"
    /\ \E keys \in Orderings(DOMAIN null_value_ids) : \E j \in DOMAIN keys :
          /\ null_value_ids[keys[j]] \notin
                 finalize(w, SubSeq(keys, 1, j - 1), null_value_ids,
                          all_profiles_in_run).written_value_ids
          /\ w' = finalize_failing(w, keys, j, null_value_ids, all_profiles_in_run)
    /\ wpc' = "done"
    /\ UNCHANGED <<hashing, files, create_metadata_files, record_id_map, value_id_map, work, queue,
                   sender_dropped, headers, metadata, mainpc, summary>>

IoNext ==
    \/ Next
    \/ WriterRecvIoError
    \/ WriterFinalizeIoError

\* files of one record or one blank line, as in the runs with faults
IoSpec == FaultInit /\ [][IoNext]_vars

\* the steps of the writer thread and the condition under which it can take
\* one: it starts, it has a batch to receive or the channel is empty and
\* disconnected, it finalizes
WriterStep ==
    \/ WriterNew
    \/ WriterRecv
    \/ WriterRecvIoError
    \/ WriterFlush
    \/ WriterFinalize
    \/ WriterFinalizeIoError

WriterCanStep ==
    \/ wpc = "new"
    \/ wpc = "recv" /\ (queue # <<>> \/ sender_dropped)
    \/ wpc = "finalize"

\* the steps of main after the writer thread is spawned
MainStep == MainCollect \/ MainJoin

MainCanStep ==
    \/ /\ mainpc = "processing"
       /\ \A f \in FileIds : work[f].status \in {"ok", "failed", "no_file"}
    \/ mainpc = "join" /\ wpc \in {"done", "panicked"}

\* the threads are scheduled: weak fairness of the steps of the pool, of the
\* writer thread and of main, the enabling conditions written out
ThreadsAreScheduled ==
    /\ []<>(~WorkerCanStep) \/ []<><<WorkerStep>>_vars
    /\ []<>(~WriterCanStep) \/ []<><<WriterStep>>_vars
    /\ []<>(~MainCanStep) \/ []<><<MainStep>>_vars

IoLiveSpec == IoSpec /\ ThreadsAreScheduled

(***************************************************************************)
(* Runs with the doi_prefix filter over profiles whose record identifier   *)
(* is at "/DOI", at "DOI" or at "/id"                                      *)
(***************************************************************************)
\* {"id":"1/x","DOI":"2/y","author":[{"given":"A"}]}: the identifier of
\* profile G has the prefix "1", the one of the other profiles "2"
RecordTwoIds ==
    Obj([id |-> Str(Doi1), DOI |-> Str(Doi2), author |-> Arr(<<Obj([given |-> Str(<<"A">>)])>>)])

\* {"id":"1x","DOI":"1x","author":[{"given":"A"}]}: identifiers without '/'
RecordNoSlash ==
    Obj([id |-> Str(<<"1", "x">>), DOI |-> Str(<<"1", "x">>),
         author |-> Arr(<<Obj([given |-> Str(<<"A">>)])>>)])

\* {"id":"2/y","DOI":"2/y","prefix":"1","author":[{"given":"A"}]}: the path
\* of the filter is present
RecordWithPrefix ==
    Obj([id |-> Str(Doi2), DOI |-> Str(Doi2), prefix |-> Str(<<"1">>),
         author |-> Arr(<<Obj([given |-> Str(<<"A">>)])>>)])

FilterRecords == {RecordTwoIds, RecordNoSlash, RecordWithPrefix}

FilterLineSeqs == UNION {[1..n -> {JsonLine(r) : r \in FilterRecords}] : n \in 1..MaxLines}

\* the first file of the run varies in profile, required prefix and lines;
\* the others are read under profile G with the prefix "1" required
FilterInit ==
    /\ \E p \in {"A", "G", "H"}, v \in {<<"1">>, <<"2">>}, ls \in FilterLineSeqs :
          files = [f \in 1..MaxFiles |->
                      IF f = 1
                      THEN [profile |-> p, task_filters |-> [k \in {"doi_prefix"} |-> v],
                            filters |-> resolve_task_filters(Profiles[p].filters,
                                                             [k \in {"doi_prefix"} |-> v]),
                            lines |-> ls]
                      ELSE [profile |-> "G", task_filters |-> [k \in {"doi_prefix"} |-> <<"1">>],
                            filters |-> resolve_task_filters(ProfileG.filters,
                                                             [k \in {"doi_prefix"} |-> <<"1">>]),
                            lines |-> <<JsonLine(RecordTwoIds)>>]]
    /\ create_metadata_files = FALSE
    /\ precompute_null_value_ids(profiles_in_order(files, {}), <<>>, <<>>).ok
    /\ record_id_map = <<>>
    /\ value_id_map = <<>>
    /\ work = [f \in FileIds |-> [status |-> "pending", line |-> 1, batch |-> EmptyBatch]]
    /\ queue = <<>>
    /\ sender_dropped = FALSE
    /\ wpc = "new"
    /\ w = NewWriter
    /\ headers = {}
    /\ metadata = EmptyMetadata
    /\ mainpc = "processing"
    /\ summary = NoSummary
    /\ hashing = NoHashing

FilterSpec == FilterInit /\ [][Next]_vars

(***************************************************************************)
(* Runs that fill the queue and whose writer may end at any point          *)
(***************************************************************************)
\* one schedule of the pool: the files that the queue can hold are taken one
\* after the other; the files after them are taken as soon as a thread is
\* free, so that several workers can wait on the full queue together
InTurn(f) ==
    \A g \in FileIds :
        g < f => \/ work[g].status \in {"ok", "failed"}
                 \/ g > channel_capacity /\ work[g].status # "pending"

StartFileInTurn(f) == InTurn(f) /\ StartFile(f)

StopNext ==
    \/ \E f \in FileIds : StartFileInTurn(f)
    \/ \E f \in FileIds : ProcessLine(f)
    \/ \E f \in FileIds : FinishFile(f)
    \/ WriterNew
    \/ WriterRecv
    \/ WriterFlush
    \/ WriterFinalize
    \/ WriterPanics
    \/ MainCollect
    \/ MainJoin

StopSpec == QueueInit /\ [][StopNext]_vars

\* the steps of the pool in this schedule and the condition under which it
\* can take one
PoolStep == \E f \in FileIds : StartFileInTurn(f) \/ ProcessLine(f) \/ FinishFile(f)

PoolCanStep ==
    \E f \in FileIds :
        \/ /\ mainpc = "processing"
           /\ work[f].status = "pending"
           /\ InTurn(f)
           /\ Cardinality({g \in FileIds : work[g].status = "running"}) < NumThreads
        \/ /\ work[f].status = "running"
           /\ work[f].line <= Len(files[f].lines)
        \/ /\ work[f].status = "running"
           /\ work[f].line > Len(files[f].lines)
           /\ is_empty(work[f].batch) \/ wpc = "panicked" \/ Len(queue) < channel_capacity

\* weak fairness of the pool, of the writer thread (which may, but need not,
\* end early) and of main
StopLiveSpec ==
    /\ StopSpec
    /\ []<>(~PoolCanStep) \/ []<><<PoolStep>>_vars
    /\ []<>(~WriterCanStep) \/ []<><<WriterStep>>_vars
    /\ []<>(~MainCanStep) \/ []<><<MainStep>>_vars

(***************************************************************************)
(* Runs under a profile whose first top-level entity has no                *)
(* value_extraction                                                        *)
(***************************************************************************)
\* the first file is read under profile F or T and holds one or two records;
\* every other file is read under profile T
TopInit ==
    /\ \E p \in {"F", "T"} :
       \E ls \in UNION {[1..n -> {JsonLine(r) : r \in {RecordAbandoned, RecordManyIds,
                                                         RecordNoPaths}}] : n \in 1..MaxLines} :
          files = [f \in 1..MaxFiles |->
                      [profile |-> IF f = 1 THEN p ELSE "T", filters |-> NoFilters,
                       lines |-> IF f = 1 THEN ls ELSE <<JsonLine(RecordAbandoned)>>]]
    /\ create_metadata_files = FALSE
    /\ precompute_null_value_ids(profiles_in_order(files, {}), <<>>, <<>>).ok
    /\ record_id_map = <<>>
    /\ value_id_map = <<>>
    /\ work = [f \in FileIds |-> [status |-> "pending", line |-> 1, batch |-> EmptyBatch]]
    /\ queue = <<>>
    /\ sender_dropped = FALSE
    /\ wpc = "new"
    /\ w = NewWriter
    /\ headers = {}
    /\ metadata = EmptyMetadata
    /\ mainpc = "processing"
    /\ summary = NoSummary
    /\ hashing = NoHashing

TopSpec == TopInit /\ [][Next]_vars

(***************************************************************************)
(* Properties                                                              *)
(***************************************************************************)
\* work[f].batch keeps the rows the worker of file f produced after the batch
\* has been sent: the record of what extraction emitted.
ProducedValues == UNION {{work[f].batch.values[i] : i \in DOMAIN work[f].batch.values} : f \in FileIds}
ProducedRecords == UNION {{work[f].batch.records[i] : i \in DOMAIN work[f].batch.records} : f \in FileIds}

\* every batch has been written and finalization has run
RunComplete == wpc = "done" /\ \A f \in FileIds : work[f].status = "ok"

\* the number of lines of file f that pass the filters and carry identifier p
Occurrences(f, p) ==
    Cardinality({i \in DOMAIN files[f].lines :
        /\ files[f].lines[i].kind = "json"
        /\ ~should_filter_out(processor(f), files[f].lines[i].json)
        /\ primary_id_of(processor(f), files[f].lines[i].json) = Some(p)})

RECURSIVE SumOver(_, _)
SumOver(S, fn) ==
    IF S = {} THEN 0
    ELSE LET x == CHOOSE y \in S : TRUE IN fn[x] + SumOver(S \ {x}, fn)

\* the identifiers the lines of the run carry
InputIds ==
    {p \in {Doi1, Doi2} : \E f \in FileIds : Occurrences(f, p) > 0}

\* C1: the values table never holds two rows with the same value_id, in
\* every state of the writer: while batches are written and after finalize
\* has appended the null rows.
C1_ValuesRowPerValueId ==
    \A i, j \in DOMAIN w.tables.values :
        i # j => w.tables.values[i].value_id # w.tables.values[j].value_id

\* C1 witness: the run is complete, two files produced a values row with the
\* same value_id, one batch carried the same value_id twice, and finalize
\* appended a null row that no batch carried.
C1_Witness ==
    /\ RunComplete
    /\ \E f, g \in FileIds :
          /\ f # g
          /\ \E i \in DOMAIN work[f].batch.values, j \in DOMAIN work[g].batch.values :
                work[f].batch.values[i].value_id = work[g].batch.values[j].value_id
    /\ \E f \in FileIds : \E i, j \in DOMAIN work[f].batch.values :
          i # j /\ work[f].batch.values[i].value_id = work[f].batch.values[j].value_id
    /\ \E i \in DOMAIN w.tables.values :
          \A r \in ProducedValues : r.value_id # w.tables.values[i].value_id

\* C2: no two written process_value_relationships rows share (process_id,
\* value_id, relationship_type) and no two written value_value_relationships
\* rows share (source_value_id, target_value_id, relationship_type, ordinal).
C2_RelationshipDedup ==
    /\ \A i, j \in DOMAIN w.tables.process_value_relationships :
          i # j => ProcessValueRelKey(w.tables.process_value_relationships[i])
                   # ProcessValueRelKey(w.tables.process_value_relationships[j])
    /\ \A i, j \in DOMAIN w.tables.value_value_relationships :
          i # j => ValueValueRelKey(w.tables.value_value_relationships[i])
                   # ValueValueRelKey(w.tables.value_value_relationships[j])

\* C2 witness: both tables have rows, and the batches that were written
\* offered a process-value key and a value-value key more often than once.
C2_Witness ==
    /\ RunComplete
    /\ SumOver(FileIds, [f \in FileIds |-> Len(work[f].batch.process_value_relationships)])
          > Len(w.tables.process_value_relationships)
    /\ SumOver(FileIds, [f \in FileIds |-> Len(work[f].batch.value_value_relationships)])
          > Len(w.tables.value_value_relationships)
    /\ Len(w.tables.value_value_relationships) > 0

\* the record_ids that the rows written so far and the rows produced so far
\* carry
RecordIdsInRows ==
    {w.tables.records[i].record_id : i \in DOMAIN w.tables.records}
    \cup {w.tables.process_record_relationships[i].record_id :
             i \in DOMAIN w.tables.process_record_relationships}
    \cup {w.tables.record_value_relationships[i].record_id :
             i \in DOMAIN w.tables.record_value_relationships}
    \cup UNION {{work[f].batch.records[i].record_id : i \in DOMAIN work[f].batch.records}
                \cup {work[f].batch.process_record_relationships[i].record_id :
                         i \in DOMAIN work[f].batch.process_record_relationships}
                \cup {work[f].batch.record_value_relationships[i].record_id :
                         i \in DOMAIN work[f].batch.record_value_relationships}
                : f \in FileIds}

\* C3: for every primary ID p ingested at least once, the rows of all tables
\* that refer to p's record (their record_id is an id of p: a digest of p
\* under some prefix) carry one and the same record_id, also when p is
\* ingested under profiles that differ.
C3_OneRecordIdPerPrimaryId ==
    \A r \in ProducedRecords :
        Cardinality({id \in RecordIdsInRows : id.hex = Sha256(r.doi)}) = 1

\* C3 witness: the run is complete and one primary ID was ingested by two
\* files whose profiles have different record prefixes.
C3_Witness ==
    /\ RunComplete
    /\ \E f, g \in FileIds : \E p \in InputIds :
          /\ Occurrences(f, p) > 0 /\ Occurrences(g, p) > 0
          /\ Profiles[files[f].profile].deterministic_ids.record_prefix
             # Profiles[files[g].profile].deterministic_ids.record_prefix
          /\ Len(w.tables.record_value_relationships) > 1

\* C4 as stated: the records table holds at most one row per primary ID.
C4_OneRecordsRowPerPrimaryId ==
    \A i, j \in DOMAIN w.tables.records :
        i # j => w.tables.records[i].doi # w.tables.records[j].doi

\* C4 amended: the records table holds at most one record_id per primary ID:
\* the rows of one primary ID (one per ingested occurrence) all carry the
\* same record_id.
C4_OneRecordIdPerPrimaryIdInRecords ==
    \A i, j \in DOMAIN w.tables.records :
        w.tables.records[i].doi = w.tables.records[j].doi
            => w.tables.records[i].record_id = w.tables.records[j].record_id

\* C4 witness: the records table holds two rows of one primary ID that come
\* from files whose profiles have different record prefixes.
C4_Witness ==
    /\ RunComplete
    /\ \E i, j \in DOMAIN w.tables.records :
          i # j /\ w.tables.records[i].doi = w.tables.records[j].doi
    /\ \E f, g \in FileIds : \E p \in InputIds :
          /\ Occurrences(f, p) > 0 /\ Occurrences(g, p) > 0
          /\ Profiles[files[f].profile].deterministic_ids.record_prefix
             # Profiles[files[g].profile].deterministic_ids.record_prefix

\* C5: records, process_record_relationships and record_value_relationships
\* rows are never suppressed: when the run is complete the records table
\* holds, for every primary ID, as many rows as lines of the input carry it
\* (k rows for k files or k lines), process_record_relationships holds one
\* row per records row, and record_value_relationships holds every row the
\* workers produced.
C5_NoDedupOfRecordRows ==
    RunComplete =>
        /\ \A p \in InputIds :
              Cardinality({i \in DOMAIN w.tables.records : w.tables.records[i].doi = p})
                  = SumOver(FileIds, [f \in FileIds |-> Occurrences(f, p)])
        /\ Len(w.tables.process_record_relationships) = Len(w.tables.records)
        /\ \A i \in DOMAIN w.tables.records :
              w.tables.process_record_relationships[i].record_id
                  = w.tables.records[i].record_id
        /\ Len(w.tables.record_value_relationships)
              = SumOver(FileIds, [f \in FileIds |-> Len(work[f].batch.record_value_relationships)])
        /\ w.rows_written["records"] = Len(w.tables.records)

\* C5 witness: the run is complete, one primary ID appears on two lines of
\* one file and also in another file, and all its rows are in the table.
C5_Witness ==
    /\ RunComplete
    /\ \E f, g \in FileIds : \E p \in InputIds :
          /\ f # g
          /\ Occurrences(f, p) = 2
          /\ Occurrences(g, p) > 0
          /\ Cardinality({i \in DOMAIN w.tables.records : w.tables.records[i].doi = p}) >= 3
\* the rows of the values table with the given type and content
ValuesRowsOf(value_type, value_content) ==
    {i \in DOMAIN w.tables.values :
        /\ w.tables.values[i].value_type = value_type
        /\ w.tables.values[i].value_content = value_content}

\* the value rows the worker of file f pushed
ProducedValuesOf(f) == {work[f].batch.values[i] : i \in DOMAIN work[f].batch.values}

\* C6: when the run is complete, for every (value_type, content) pair that
\* a worker pushed (extracted from data or emitted as a null default) the
\* values table holds exactly one row with that type and content, and that
\* row carries the value_id under which the pair was pushed, the value_id the
\* relationship rows of the pair use.
C6_OneValuesRowPerTypeAndContent ==
    RunComplete =>
        \A r \in ProducedValues :
            /\ Cardinality(ValuesRowsOf(r.value_type, r.value_content)) = 1
            /\ \A i \in ValuesRowsOf(r.value_type, r.value_content) :
                  w.tables.values[i].value_id = r.value_id

\* a pair that the files f and g both extracted from data: both pushed a row
\* for it and no row pushed for it carries the id of a null value
ExtractedByBoth(f, g, r) ==
    /\ r \in ProducedValuesOf(f)
    /\ \E s \in ProducedValuesOf(g) :
          s.value_type = r.value_type /\ s.value_content = r.value_content
    /\ \A s \in ProducedValues :
          (s.value_type = r.value_type /\ s.value_content = r.value_content)
              => \A k \in DOMAIN null_value_ids : s.value_id # null_value_ids[k]

\* C7: when the run is complete and two files processed under different
\* profiles both extracted the same (value_type, content), the values table
\* holds exactly one row for the pair if the profiles share value_prefix and
\* exactly two rows, with different value_ids, if they do not.
C7_CrossProfileRowsByValuePrefix ==
    RunComplete =>
        \A f, g \in FileIds : \A r \in ProducedValuesOf(f) :
            (files[f].profile # files[g].profile /\ ExtractedByBoth(f, g, r)) =>
                Cardinality(ValuesRowsOf(r.value_type, r.value_content))
                    = IF Profiles[files[f].profile].deterministic_ids.value_prefix
                         = Profiles[files[g].profile].deterministic_ids.value_prefix
                      THEN 1 ELSE 2

\* the run in which one thread processes the files one after the other in
\* the order of the task list: the lines of file f from line i on
RECURSIVE sequential_lines(_, _, _)
sequential_lines(f, i, st) ==
    IF i > Len(files[f].lines) THEN st
    ELSE sequential_lines(f, i + 1, process_line(processor(f), files[f].lines[i], st))

\* the writer after the batch of a file
written_if_not_empty(wr, st) ==
    [w |-> IF is_empty(st.batch) THEN wr ELSE write_batch(wr, st.batch),
     record_id_map |-> st.record_id_map, value_id_map |-> st.value_id_map]

\* the files from f on; acc = [w, record_id_map, value_id_map]
RECURSIVE sequential_files(_, _)
sequential_files(f, acc) ==
    IF f > MaxFiles THEN acc.w
    ELSE sequential_files(f + 1,
             written_if_not_empty(acc.w,
                 sequential_lines(f, 1, [batch |-> EmptyBatch,
                                         record_id_map |-> acc.record_id_map,
                                         value_id_map |-> acc.value_id_map])))

sequential_run ==
    finalize(sequential_files(1, [w |-> NewWriter, record_id_map |-> <<>>,
                                  value_id_map |-> <<>>]),
             CHOOSE keys \in Orderings(DOMAIN null_value_ids) : TRUE,
             null_value_ids, all_profiles_in_run)

RowSet(rows) == {rows[i] : i \in DOMAIN rows}

\* C8: the set of records rows and the set of values rows of a completed
\* run are determined by the input (files, tasks, profiles): whatever the
\* interleaving of the workers, they are the sets of the run that processes
\* the files one after the other.
C8_RowSetsAreDeterministic ==
    RunComplete =>
        /\ RowSet(w.tables.records) = RowSet(sequential_run.tables.records)
        /\ RowSet(w.tables.values) = RowSet(sequential_run.tables.values)

\* C9: every records row produced while processing a file under profile P
\* has record_id = deterministic_id(P.record_prefix, doi).
C9_RecordIdFromOwnProfile ==
    \A f \in FileIds : \A i \in DOMAIN work[f].batch.records :
        work[f].batch.records[i].record_id
            = generate_deterministic_id(
                  Profiles[files[f].profile].deterministic_ids.record_prefix,
                  work[f].batch.records[i].doi)

\* C10: every values row pushed to a batch under profile P, the rows of null
\* fallbacks included, has value_id = deterministic_id(P.value_prefix,
\* value_type + ":" + value_content) for the row's own type and content.
C10_ValueIdFromOwnTypeAndContent ==
    \A f \in FileIds : \A i \in DOMAIN work[f].batch.values :
        work[f].batch.values[i].value_id
            = generate_deterministic_id(
                  Profiles[files[f].profile].deterministic_ids.value_prefix,
                  work[f].batch.values[i].value_type \o <<":">>
                  \o work[f].batch.values[i].value_content)
\* C11: under one value_prefix, two different (value_type, content) pairs
\* never receive the same value_id from generate_value_id, whatever the
\* strings are (a ':' in them included).
C11_ValueIdInjective ==
    (hashing.left_id.some /\ hashing.right_id.some /\ hashing.left.val # hashing.right.val)
        => hashing.left_id.val # hashing.right_id.val
\* the null keys declared by the profiles of the run's tasks
DeclaredNullKeys == UNION {DOMAIN Profiles[files[f].profile].null_values : f \in FileIds}

\* the value_ids that the batches of the workers carried
ProducedValueIds == {r.value_id : r \in ProducedValues}

WrittenRecordIds == {w.tables.records[i].record_id : i \in DOMAIN w.tables.records}
WrittenValueIds == {w.tables.values[i].value_id : i \in DOMAIN w.tables.values}
WrittenProcessIds == {metadata.processes[i].process_id : i \in DOMAIN metadata.processes}

\* the ids that the written relationship rows refer to
ReferencedRecordIds ==
    {w.tables.process_record_relationships[i].record_id :
        i \in DOMAIN w.tables.process_record_relationships}
    \cup {w.tables.record_value_relationships[i].record_id :
             i \in DOMAIN w.tables.record_value_relationships}

ReferencedValueIds ==
    {w.tables.process_value_relationships[i].value_id :
        i \in DOMAIN w.tables.process_value_relationships}
    \cup {w.tables.record_value_relationships[i].value_id :
             i \in DOMAIN w.tables.record_value_relationships}
    \cup {w.tables.value_value_relationships[i].source_value_id :
             i \in DOMAIN w.tables.value_value_relationships}
    \cup {w.tables.value_value_relationships[i].target_value_id :
             i \in DOMAIN w.tables.value_value_relationships}

ReferencedProcessIds ==
    {w.tables.process_record_relationships[i].process_id :
        i \in DOMAIN w.tables.process_record_relationships}
    \cup {w.tables.process_value_relationships[i].process_id :
             i \in DOMAIN w.tables.process_value_relationships}
    \cup {w.tables.record_value_relationships[i].process_id :
             i \in DOMAIN w.tables.record_value_relationships}
    \cup {w.tables.value_value_relationships[i].process_id :
             i \in DOMAIN w.tables.value_value_relationships}
    \cup {metadata.source_process_relationships[i].process_id :
             i \in DOMAIN metadata.source_process_relationships}

\* C13 as stated: after finalization every record_id, value_id,
\* source_value_id, target_value_id and process_id of a written relationship
\* row is the primary key of a written records, values or processes row.
C13_ReferentialIntegrity ==
    wpc = "done" =>
        /\ ReferencedRecordIds \subseteq WrittenRecordIds
        /\ ReferencedValueIds \subseteq WrittenValueIds
        /\ ReferencedProcessIds \subseteq WrittenProcessIds

\* C13 amended: after finalization every record_id and every value_id
\* (source and target included) of a written relationship row is the
\* primary key of a written records or values row, and every process_id is
\* the primary key of a processes row when the metadata tables were asked
\* for; without them no processes table is written.
C13_ReferentialIntegrityOfDataTables ==
    wpc = "done" =>
        /\ ReferencedRecordIds \subseteq WrittenRecordIds
        /\ ReferencedValueIds \subseteq WrittenValueIds
        /\ create_metadata_files => ReferencedProcessIds \subseteq WrittenProcessIds
        /\ ~create_metadata_files => "processes" \notin headers /\ WrittenProcessIds = {}

\* C13 witness: a run with the metadata tables has ended; rows of all four
\* relationship tables were written, among them one that links a null value.
C13_Witness ==
    /\ wpc = "done"
    /\ create_metadata_files
    /\ w.tables.process_record_relationships # <<>>
    /\ w.tables.process_value_relationships # <<>>
    /\ w.tables.record_value_relationships # <<>>
    /\ \E i \in DOMAIN w.tables.value_value_relationships :
          \E key \in DOMAIN null_value_ids :
              w.tables.value_value_relationships[i].target_value_id = null_value_ids[key]
\* the rows that the worker of file f emitted for line i of the file (the
\* ids apart, they do not depend on what the identity maps hold)
rows_of_line(f, i) ==
    process_line(processor(f), files[f].lines[i],
                 [batch |-> EmptyBatch, record_id_map |-> record_id_map,
                  value_id_map |-> value_id_map]).batch

\* the rows of the value_value_relationships of a batch that an array entity
\* nested under the parent value `source` emitted (they carry an ordinal)
NestedRowsUnder(b, source) ==
    {j \in DOMAIN b.value_value_relationships :
        /\ b.value_value_relationships[j].source_value_id = source
        /\ b.value_value_relationships[j].ordinal.some}

\* C14: for every line that a worker has processed, the ordinals of the
\* record_value_relationships rows emitted for the author array of the
\* record are exactly 1..n in row order, n the number of rows, and so are
\* the ordinals of the value_value_relationships rows of the affiliation
\* array nested under one author (the authors of a record of the model have
\* different value_ids).
C14_OrdinalsWithoutGaps ==
    \A f \in FileIds : \A i \in DOMAIN files[f].lines :
        work[f].line > i =>
            /\ \A j \in DOMAIN rows_of_line(f, i).record_value_relationships :
                  rows_of_line(f, i).record_value_relationships[j].ordinal = j
            /\ \A j \in DOMAIN rows_of_line(f, i).value_value_relationships :
                  rows_of_line(f, i).value_value_relationships[j].ordinal.some =>
                      {rows_of_line(f, i).value_value_relationships[k].ordinal.val :
                          k \in NestedRowsUnder(rows_of_line(f, i),
                                   rows_of_line(f, i).value_value_relationships[j].source_value_id)}
                      = 1..Cardinality(NestedRowsUnder(rows_of_line(f, i),
                                   rows_of_line(f, i).value_value_relationships[j].source_value_id))
\* an active filter of file f that the profile defines resolves, for the
\* record, to a value that is not the required one (or to none)
RejectedByFilter(f, record) ==
    \E key \in DOMAIN files[f].filters :
        /\ filter_config_of(Profiles[files[f].profile], key).some
        /\ resolved_filter_value(processor(f), record, key,
               filter_config_of(Profiles[files[f].profile], key).val)
           # Some(files[f].filters[key])

\* the lines of a sequence that are records no filter of file f rejects
RECURSIVE AcceptedLines(_, _)
AcceptedLines(f, lines) ==
    IF lines = <<>> THEN <<>>
    ELSE (IF Head(lines).kind = "json" /\ ~RejectedByFilter(f, Head(lines).json)
          THEN <<Head(lines)>> ELSE <<>>) \o AcceptedLines(f, Tail(lines))

\* the batch of a processor that reads the given lines one after the other
RECURSIVE BatchOfLines(_, _, _)
BatchOfLines(self, lines, st) ==
    IF lines = <<>> THEN st.batch
    ELSE BatchOfLines(self, Tail(lines), process_line(self, Head(lines), st))

\* C15: a record for which an active filter resolves to a value other than
\* the required one produces no row of any table, and the other records are
\* extracted: the batch of a finished file is the batch that a processor
\* without filters produces from the lines that no filter rejects.
C15_FilteredRecordsProduceNoRows ==
    \A f \in FileIds :
        work[f].status = "ok" =>
            work[f].batch
                = BatchOfLines([processor(f) EXCEPT !.active_filters = NoFilters],
                               AcceptedLines(f, files[f].lines),
                               [batch |-> EmptyBatch, record_id_map |-> record_id_map,
                                value_id_map |-> value_id_map])

\* C15 witness: a file with an active filter is finished; the filter rejected
\* one of its records and let another pass, whose rows are in the batch.
C15_Witness ==
    \E f \in FileIds :
        /\ work[f].status = "ok"
        /\ DOMAIN files[f].filters # {}
        /\ \E i, j \in DOMAIN files[f].lines :
              /\ files[f].lines[i].kind = "json"
              /\ RejectedByFilter(f, files[f].lines[i].json)
              /\ primary_id_of(processor(f), files[f].lines[i].json).some
              /\ files[f].lines[j].kind = "json"
              /\ ~RejectedByFilter(f, files[f].lines[j].json)
        /\ work[f].batch.records # <<>>
\* the task filters of file f whose key the profile of f defines
DefinedTaskFilters(f) ==
    [key \in {k \in DOMAIN files[f].task_filters :
                 filter_config_of(Profiles[files[f].profile], k).some}
        |-> files[f].task_filters[key]]

\* C16: a task filter key for which the profile defines no filter is dropped
\* when the task filters are resolved, is skipped when a record is evaluated
\* (a processor given the unresolved task filters rejects the same records),
\* and never makes a file fail or the run end with a non-zero status.
C16_UndefinedFilterKeyIgnored ==
    /\ \A f \in FileIds :
          /\ files[f].filters = DefinedTaskFilters(f)
          /\ \A i \in DOMAIN files[f].lines :
                files[f].lines[i].kind = "json" =>
                    should_filter_out([processor(f) EXCEPT
                                          !.active_filters = files[f].task_filters],
                                      files[f].lines[i].json)
                    = should_filter_out([processor(f) EXCEPT
                                            !.active_filters = DefinedTaskFilters(f)],
                                        files[f].lines[i].json)
          /\ work[f].status # "failed"
    /\ mainpc = "exit" => summary.exit_code = 0

\* C16 witness: the run has ended; a file whose task filters hold a key that
\* its profile does not define was read and a record of it was extracted.
C16_Witness ==
    /\ mainpc = "exit"
    /\ \E f \in FileIds :
          /\ \E k \in DOMAIN files[f].task_filters :
                ~filter_config_of(Profiles[files[f].profile], k).some
          /\ work[f].status = "ok"
          /\ work[f].batch.records # <<>>
          /\ Len(w.tables.records) >= Len(work[f].batch.records)
\* the lines of a sequence other than the records without identifier
RECURSIVE LinesWithId(_)
LinesWithId(lines) ==
    IF lines = <<>> THEN <<>>
    ELSE (IF Head(lines).kind = "json" /\ Head(lines).json \in RecordsWithoutId
          THEN <<>> ELSE <<Head(lines)>>) \o LinesWithId(Tail(lines))

\* C17: a record whose identifier is missing, is not a string or is empty
\* after trimming is skipped whether the identifier is required or not: it
\* adds no row (the batch of a finished file is the batch of its other
\* lines, so the lines after it are processed), no entry to record_id_map or
\* value_id_map (the author "Z" of these records is never interned), and the
\* file does not fail.
C17_RecordWithoutIdentifierSkipped ==
    /\ DOMAIN record_id_map \subseteq {Doi1, Doi2}
    /\ \A key \in DOMAIN value_id_map : key[2] # <<"Z">>
    /\ \A f \in FileIds :
          /\ work[f].status # "failed"
          /\ work[f].status = "ok" =>
                work[f].batch
                    = BatchOfLines(processor(f), LinesWithId(files[f].lines),
                                   [batch |-> EmptyBatch, record_id_map |-> record_id_map,
                                    value_id_map |-> value_id_map])

\* C17 witness: the run has ended; under a profile with a required
\* identifier and under one with an optional identifier a file began with a
\* record without identifier, and the record after it was extracted.
C17_Witness ==
    /\ mainpc = "exit"
    /\ summary.exit_code = 0
    /\ \A required \in BOOLEAN : \E f \in FileIds :
          /\ Profiles[files[f].profile].record_identifier.required = required
          /\ Len(files[f].lines) = 2
          /\ files[f].lines[1].kind = "json"
          /\ files[f].lines[1].json \in RecordsWithoutId
          /\ ~should_filter_out(processor(f), files[f].lines[1].json)
          /\ work[f].status = "ok"
          /\ Len(work[f].batch.records) = 1
\* two profiles of the run define one null key differently
InconsistentNullKey ==
    \E f, g \in FileIds :
        \E key \in DOMAIN Profiles[files[f].profile].null_values
                   \cap DOMAIN Profiles[files[g].profile].null_values :
            Profiles[files[f].profile].null_values[key]
                # Profiles[files[g].profile].null_values[key]

\* no input file has been touched and nothing has been written
NothingProcessed ==
    /\ \A f \in FileIds : work[f] = [status |-> "pending", line |-> 1, batch |-> EmptyBatch]
    /\ record_id_map = <<>> /\ value_id_map = <<>>
    /\ queue = <<>> /\ w = NewWriter /\ headers = {}

\* C18: once main is past the null registry, a run whose tasks use profiles
\* that define a null key differently has ended with a fatal error (non-zero
\* status) and has processed no file; a run whose profiles agree goes on,
\* with every declared key registered once, under the id of a definition.
C18_InconsistentNullConfigIsFatal ==
    mainpc # "precompute" =>
        IF InconsistentNullKey
        THEN mainpc = "fatal" /\ summary.exit_code # 0 /\ NothingProcessed
        ELSE /\ mainpc \in {"processing", "join", "exit"}
             /\ DOMAIN null_value_ids = DeclaredNullKeys
             /\ \A key \in DeclaredNullKeys :
                   \E f \in FileIds :
                       /\ key \in DOMAIN Profiles[files[f].profile].null_values
                       /\ null_value_ids[key]
                          = generate_deterministic_id(
                                Profiles[files[f].profile].deterministic_ids.value_prefix,
                                Profiles[files[f].profile].null_values[key].value_type
                                \o <<":">>
                                \o Profiles[files[f].profile].null_values[key].content)
\* C19: when the run has exited after the pipeline started, the exit status
\* is non-zero if and only if a file was recorded as failed, and 0 exactly
\* when every file was processed successfully.
C19_ExitStatusIffFileFailed ==
    mainpc = "exit" =>
        /\ summary.exit_code # 0 <=> \E f \in FileIds : work[f].status = "failed"
        /\ summary.exit_code = 0 <=> \A f \in FileIds : work[f].status = "ok"
        /\ summary.files_with_errors = {f \in FileIds : work[f].status = "failed"}

\* C19 witness: the run has exited with status 1 after one file could not be
\* opened and another was processed and written.
C19_Witness ==
    /\ mainpc = "exit"
    /\ summary.exit_code = 1
    /\ wpc = "done"
    /\ \E f, g \in FileIds :
          /\ work[f].status = "failed" /\ work[f].line = 1
          /\ work[g].status = "ok" /\ work[g].batch.records # <<>>
          /\ w.tables.records # <<>>
\* C20: when the writer thread has panicked, at start-up, while writing a
\* batch, or in flush and finalization after the last batch, the run exits
\* with a non-zero status.
C20_WriterPanicExitsNonZero ==
    (mainpc = "exit" /\ wpc = "panicked") => summary.exit_code # 0
\* the workers have finished every file
AllFilesFinished == \A f \in FileIds : work[f].status \in {"ok", "failed"}

\* C21: once the writer is gone, a worker that finishes a file with a batch
\* to send ends with the file recorded as failed and the queue untouched
\* (it never waits on the queue), and the pool goes on to finish every
\* remaining file.
C21_ClosedQueueFailsFileAndPoolCompletes ==
    /\ [][wpc = "panicked" =>
            \A f \in FileIds :
                (work[f].status = "running" /\ work'[f].status # "running") =>
                    /\ work'[f].status = IF is_empty(work[f].batch) THEN "ok" ELSE "failed"
                    /\ queue' = queue]_vars
    /\ [](wpc = "panicked" =>
            \A f \in FileIds :
                (work[f].status = "running" /\ work[f].line > Len(files[f].lines))
                    => ENABLED FinishFile(f))
    /\ (wpc = "panicked" ~> AllFilesFinished)

\* C21 witness: the writer has panicked, a file whose lines were all handled
\* and that had a batch to send is failed, and every file is finished.
C21_Witness ==
    /\ wpc = "panicked"
    /\ AllFilesFinished
    /\ \E f \in FileIds :
          /\ work[f].status = "failed"
          /\ work[f].line > Len(files[f].lines)
          /\ ~is_empty(work[f].batch)
\* the file could not be opened: its task ended in Err before any line
CouldNotOpen(f) == work[f].status = "failed" /\ work[f].line = 1

\* the file is not a gzip stream: no line of it can be read
NotGzip(f) == \A i \in DOMAIN files[f].lines : files[f].lines[i] = ReadErrorLine

\* C22: when the run has exited, every file that could not be opened or whose
\* gzip decompression could not be initialised is in the list of failed
\* files, the exit status is then non-zero, the file has contributed no row,
\* and every other file has been processed to its end.
C22_UnreadableFileIsFailed ==
    mainpc = "exit" =>
        \A f \in FileIds :
            (CouldNotOpen(f) \/ NotGzip(f)) =>
                /\ f \in summary.files_with_errors
                /\ summary.exit_code # 0
                /\ is_empty(work[f].batch)
                /\ \A g \in FileIds \ {f} :
                      ~(CouldNotOpen(g) \/ NotGzip(g)) =>
                          work[g].status = "ok" /\ work[g].line > Len(files[g].lines)
\* the queue is closed only after the workers have finished every file; the
\* writer is in or past finalization only with the queue closed and drained
ShutdownOrderOfQueueAndWriter ==
    /\ sender_dropped => AllFilesFinished
    /\ wpc \in {"finalize", "done"} => sender_dropped /\ queue = <<>>

\* flush follows receiving and finalization follows flush; from finalization
\* on nothing is taken from the queue, and the tables change only by the
\* null rows of finalization
ShutdownStepsOfWriter ==
    /\ (wpc' = "finalize" /\ wpc # "finalize") => wpc = "recv"
    /\ (wpc' = "done" /\ wpc # "done") => wpc = "finalize"
    /\ wpc \in {"finalize", "done"} =>
          /\ queue' = queue
          /\ w' # w => wpc = "finalize" /\ wpc' = "done"

\* C23 as stated: shutdown order, with main at the summary only after the
\* writer has finished finalization.
C23_ShutdownOrder ==
    /\ [](ShutdownOrderOfQueueAndWriter)
    /\ [][ShutdownStepsOfWriter]_vars
    /\ [](mainpc = "exit" => wpc = "done")

\* C23 amended: the queue is closed only after every file was processed; the
\* writer flushes and finalizes only after it has received every batch sent;
\* no batch is written once finalization has started; main prints the
\* summary only after the writer thread has ended, and it has the row counts
\* exactly when the writer ended by finishing finalization (after a panic of
\* the writer the summary is printed without them).
C23_ShutdownOrderWriterEnded ==
    /\ [](ShutdownOrderOfQueueAndWriter)
    /\ [][ShutdownStepsOfWriter]_vars
    /\ [](mainpc = "exit" =>
            /\ wpc \in {"done", "panicked"}
            /\ summary.final_row_counts.some <=> wpc = "done"
            /\ summary.final_row_counts.some => summary.final_row_counts.val = w.rows_written)

\* C23 witness: the run has ended in order: a batch was written, the writer
\* finalized, main has the row counts, which count the written rows.
C23_Witness ==
    /\ mainpc = "exit"
    /\ wpc = "done"
    /\ summary.final_row_counts.some
    /\ w.tables.records # <<>>
    /\ summary.final_row_counts.val["records"] = Len(w.tables.records)
\* the process_record_relationships rows of the batches in the queue, in order
RECURSIVE RowsInQueue(_)
RowsInQueue(q) ==
    IF q = <<>> THEN <<>>
    ELSE Head(q).process_record_relationships \o RowsInQueue(Tail(q))

\* the rows the writer has received and written, then the rows still queued
ReceivedOrQueued == w.tables.process_record_relationships \o RowsInQueue(queue)

\* the files whose batch the queue has accepted
SentFiles == {f \in FileIds : work[f].status = "ok" /\ ~is_empty(work[f].batch)}

\* the worker of f has handled every line and has a batch to send
ReadyToSend(f) ==
    /\ work[f].status = "running"
    /\ work[f].line > Len(files[f].lines)
    /\ ~is_empty(work[f].batch)

\* C24: the queue never holds more than max(16, 2 x threads) batches; a
\* worker with a batch to send cannot complete the send while the queue is
\* full and can as soon as it has room; and while the writer is alive the
\* batches accepted by the queue are, each exactly once, either still in the
\* queue or received and written (every process_record_relationships row
\* carries the id of its file and is never deduplicated).
C24_BoundedQueueDeliversExactlyOnce ==
    /\ Len(queue) <= Max(16, 2 * NumThreads)
    /\ \A f \in FileIds :
          ReadyToSend(f) => (ENABLED FinishFile(f) <=> Len(queue) < Max(16, 2 * NumThreads))
    /\ wpc # "panicked" =>
          /\ \A i \in DOMAIN queue :
                Cardinality({f \in SentFiles : work[f].batch = queue[i]}) = 1
          /\ \A f \in SentFiles :
                \A i \in DOMAIN work[f].batch.process_record_relationships :
                    Cardinality({j \in DOMAIN ReceivedOrQueued :
                        ReceivedOrQueued[j] = work[f].batch.process_record_relationships[i]}) = 1
          /\ Len(ReceivedOrQueued) =
                SumOver(SentFiles,
                        [f \in FileIds |-> Len(work[f].batch.process_record_relationships)])
          /\ wpc \in {"finalize", "done"} => queue = <<>>

\* C24 witness: the writer has received and written a batch, the queue is
\* full again, and a worker with a batch to send is waiting.
C24_Witness ==
    /\ Len(queue) = Max(16, 2 * NumThreads)
    /\ w.tables.process_record_relationships # <<>>
    /\ \E f \in FileIds : ReadyToSend(f) /\ ~ENABLED FinishFile(f)
\* the file that emitted a row of a relationship table: every relationship
\* id is generated by the processor of one file
FileOfRow(table_name, row) ==
    CASE table_name = "process_record_relationships" -> row.process_record_id.file
      [] table_name = "process_value_relationships" -> row.process_value_id.file
      [] table_name = "record_value_relationships" -> row.record_value_id.file
      [] table_name = "value_value_relationships" -> row.value_value_id.file

RELATIONSHIP_TABLE_NAMES == DATA_TABLE_NAMES \ {"records", "values"}

\* the rows of one file are next to each other in the table
ContiguousByFile(table_name) ==
    \A i, k \in DOMAIN w.tables[table_name] :
        (i < k /\ FileOfRow(table_name, w.tables[table_name][i])
                  = FileOfRow(table_name, w.tables[table_name][k])) =>
            \A j \in i..k :
                FileOfRow(table_name, w.tables[table_name][j])
                    = FileOfRow(table_name, w.tables[table_name][i])

\* a step that changes a table appends to it rows of the one batch that the
\* writer is receiving (or, in finalization, null rows to values)
TableGrowsByOneBatch(table_name) ==
    w'.tables[table_name] # w.tables[table_name] =>
        \/ /\ wpc = "finalize"
           /\ table_name = "values"
        \/ /\ wpc = "recv"
           /\ queue # <<>>
           /\ queue' = Tail(queue)
           /\ Len(w'.tables[table_name]) > Len(w.tables[table_name])
           /\ SubSeq(w'.tables[table_name], 1, Len(w.tables[table_name])) = w.tables[table_name]
           /\ \A j \in (Len(w.tables[table_name]) + 1)..Len(w'.tables[table_name]) :
                 \E i \in DOMAIN Head(queue)[table_name] :
                     w'.tables[table_name][j] = Head(queue)[table_name][i]

\* C25: in every table the rows of one file form one contiguous block: each
\* step of the writer appends rows of one batch only, to the end of each
\* table, and in the relationship tables (whose rows carry the file in their
\* id) the rows of a file are next to each other in every reachable state.
C25_RowsOfFileContiguous ==
    /\ [](\A table_name \in RELATIONSHIP_TABLE_NAMES : ContiguousByFile(table_name))
    /\ [][\A table_name \in DATA_TABLE_NAMES : TableGrowsByOneBatch(table_name)]_vars

\* C25 witness: two files of two records each have been written, so that the
\* table of process_record_relationships holds two blocks of two rows.
C25_Witness ==
    /\ wpc = "done"
    /\ Len(w.tables.process_record_relationships) = 4
    /\ \E f, g \in FileIds :
          /\ f # g
          /\ Len(work[f].batch.process_record_relationships) = 2
          /\ Len(work[g].batch.process_record_relationships) = 2
          /\ Len(work[f].batch.value_value_relationships) >= 2
\* the six data tables exist, each with its header
DataTablesCreated == DATA_TABLE_NAMES \subseteq headers

\* C26: in a run that has loaded its run configuration the six table files
\* are created with their headers before the null registry is built and
\* before a worker processes a file, and they exist at the end of the run.
C26_TablesCreatedAtRunStart ==
    /\ mainpc # "precompute" => DataTablesCreated
    /\ (\E f \in FileIds : work[f].status \in {"running", "ok", "failed"}) => DataTablesCreated
    /\ mainpc \in {"exit", "fatal"} => DataTablesCreated
\* the parts of a record built by RecordOf
AffiliationItemsOf(record) == record.o.author.a[1].o.affiliation.a
PositionOf(record) == record.o.author.a[1].o.position
FunderItemsOf(record) == record.o.funder.a

\* the items of an array-valued field of a JSON object, none when the field
\* is missing or not an array
ArrayItemsAt(node, field) ==
    IF node.k = "obj" /\ field \in DOMAIN node.o /\ node.o[field].k = "arr"
    THEN node.o[field].a ELSE <<>>

\* the strings found as "id" in the id array of an affiliation item
IdsUnder(item) ==
    {ArrayItemsAt(item, "id")[j].o["id"].s :
        j \in {n \in DOMAIN ArrayItemsAt(item, "id") : "id" \in DOMAIN ArrayItemsAt(item, "id")[n].o}}

\* the value_id that the processor of file f gives to (value_type, content)
ValueIdOf(f, value_type, content) == generate_value_id(processor(f), value_type, content)

\* the value_id of the one author of a record built by RecordOf
AuthorIdOf(f) == ValueIdOf(f, AuthorNameType, <<"A">>)

\* the rows of a sequence that satisfy a test, as a set of indices
LinksWhere(rows, relationship_type, source, target, ordinal) ==
    {j \in DOMAIN rows :
        /\ rows[j].relationship_type = relationship_type
        /\ rows[j].source_value_id = source
        /\ rows[j].target_value_id = target
        /\ rows[j].ordinal = ordinal}

\* the lines of the run that a worker has handled
HandledLines == {<<f, i>> \in FileIds \X (1..MaxLines) :
                    i \in DOMAIN files[f].lines /\ work[f].line > i}

\* C27 for the line i of file f: an affiliation item without a name (the
\* entity has no use_null) leaves no link with its ordinal, and no values row
\* for an id that only this item holds; every other affiliation item has its
\* link with its own ordinal; the position entity that follows in the same
\* list and the funder entity that follows the author entity are processed.
ItemAbandonedAlone(f, i) ==
    LET record == files[f].lines[i].json
        b == rows_of_line(f, i)
        items == AffiliationItemsOf(record)
        extracted == [k \in DOMAIN items |->
                         extract_value(items[k], AffiliationEntityF.value_extraction.val)]
    IN  /\ \A k \in DOMAIN items :
              IF ~extracted[k].some
              THEN /\ \A j \in DOMAIN b.value_value_relationships :
                         ~(/\ b.value_value_relationships[j].relationship_type = "has_affiliation"
                           /\ b.value_value_relationships[j].ordinal = Some(k))
                   /\ \A id \in IdsUnder(items[k]) \
                                UNION {IdsUnder(items[n]) : n \in DOMAIN items \ {k}} :
                         \A j \in DOMAIN b.values : b.values[j].value_content # id
              ELSE Cardinality(LinksWhere(b.value_value_relationships, "has_affiliation",
                       AuthorIdOf(f),
                       ValueIdOf(f, AffiliationNameType, extracted[k].val), Some(k))) = 1
        /\ \A j \in DOMAIN b.value_value_relationships :
              b.value_value_relationships[j].relationship_type \in {"has_ror", "has_id", "first_id"}
                  => b.value_value_relationships[j].source_value_id # AuthorIdOf(f)
        /\ \A k \in DOMAIN ArrayItemsAt(PositionOf(record), "dept") :
              Cardinality(LinksWhere(b.value_value_relationships, "has_dept", AuthorIdOf(f),
                  ValueIdOf(f, DeptNameType,
                            ArrayItemsAt(PositionOf(record), "dept")[k].o.name.s), Some(k))) = 1
        /\ \A k \in DOMAIN FunderItemsOf(record) :
              \E j \in DOMAIN b.record_value_relationships :
                  /\ b.record_value_relationships[j].relationship_type = "has_funder"
                  /\ b.record_value_relationships[j].ordinal = k
                  /\ b.record_value_relationships[j].value_id =
                         ValueIdOf(f, FunderNameType, FunderItemsOf(record)[k].o.name.s)

\* C27: when value extraction for an entity item yields no content and the
\* entity has no use_null, only that item is abandoned: no values row, no
\* link, no nested entity and no related value for it, while the following
\* items of the array and the following sibling entities are processed.
C27_OnlyTheItemIsAbandoned ==
    \A x \in HandledLines : ItemAbandonedAlone(x[1], x[2])

\* C27 witness: a worker has handled the record whose second affiliation has
\* no name, and the rows of the line hold the link of the third affiliation.
C27_Witness ==
    \E x \in HandledLines :
        /\ files[x[1]].lines[x[2]].json = RecordAbandoned
        /\ LinksWhere(rows_of_line(x[1], x[2]).value_value_relationships, "has_affiliation",
                      AuthorIdOf(x[1]), ValueIdOf(x[1], AffiliationNameType, <<"P">>),
                      Some(3)) # {}
\* the path of the related-value config does not exist under the node
RelatedPathMissing(node, config) == ~get_value_at_path(node, config.path).some

\* the path exists and none of its items satisfies the filter: with a
\* filter_condition every item fails it, without one there is no item
NoItemSatisfiesFilter(node, config) ==
    /\ get_value_at_path(node, config.path).some
    /\ \A j \in DOMAIN items_of(get_value_at_path(node, config.path).val, config.is_array) :
          /\ config.filter_condition.some
          /\ ~check_filter_condition(
                 items_of(get_value_at_path(node, config.path).val, config.is_array)[j],
                 config.filter_condition.val)

\* the batch holds a values row of the null of the config and a link from
\* the parent to it with no ordinal
NullDefaultEmitted(b, parent, config) ==
    /\ \E j \in DOMAIN b.values :
          b.values[j].value_id = null_value_ids[config.extract_value.use_null.val]
    /\ LinksWhere(b.value_value_relationships, config.relationship_to_parent, parent,
                  null_value_ids[config.extract_value.use_null.val], None) # {}

\* the null default of one related-value config under one node
NullDefaultWhenNothingMatches(b, node, parent, config) ==
    (RelatedPathMissing(node, config) \/ NoItemSatisfiesFilter(node, config))
        => NullDefaultEmitted(b, parent, config)

\* C28: for a related-value config with use_null, the values row of the null
\* and the link from the parent to it (ordinal null) are emitted when the
\* path does not exist and when it exists but no item satisfies the filter
\* (an empty or non-array value included), with a filter_condition (the ROR
\* of a named affiliation) and without one (the tags of the position).
C28_NullDefaultOfRelatedValue ==
    \A x \in HandledLines :
        /\ \A k \in DOMAIN AffiliationItemsOf(files[x[1]].lines[x[2]].json) :
              extract_value(AffiliationItemsOf(files[x[1]].lines[x[2]].json)[k],
                            AffiliationEntityF.value_extraction.val).some =>
                  NullDefaultWhenNothingMatches(rows_of_line(x[1], x[2]),
                      AffiliationItemsOf(files[x[1]].lines[x[2]].json)[k],
                      ValueIdOf(x[1], AffiliationNameType,
                          extract_value(AffiliationItemsOf(files[x[1]].lines[x[2]].json)[k],
                                        AffiliationEntityF.value_extraction.val).val),
                      RorRelated)
        /\ NullDefaultWhenNothingMatches(rows_of_line(x[1], x[2]),
               PositionOf(files[x[1]].lines[x[2]].json), AuthorIdOf(x[1]), TagRelated)
\* the items that a related-value config checks under a node
RelatedItemsAt(node, config) ==
    IF get_value_at_path(node, config.path).some
    THEN items_of(get_value_at_path(node, config.path).val, config.is_array)
    ELSE <<>>

\* the indices of the items that satisfy the filter condition of the config
\* (all of them when it has none)
MatchingItems(node, config) ==
    {j \in DOMAIN RelatedItemsAt(node, config) :
        config.filter_condition.some =>
            check_filter_condition(RelatedItemsAt(node, config)[j], config.filter_condition.val)}

FirstOf(S) == CHOOSE j \in S : \A k \in S : j <= k

\* the value_id of the row that the config emits for an item, if it can
\* emit one: the id of its content, else the id of the null of the config
TargetOfItem(f, item, config) ==
    IF extract_value(item, config.extract_value).some
    THEN Some(ValueIdOf(f, config.extract_value.target_value_type,
                        extract_value(item, config.extract_value).val))
    ELSE IF config.extract_value.use_null.some
    THEN Some(null_value_ids[config.extract_value.use_null.val])
    ELSE None

\* the links of the config from one parent in a batch
RelatedLinks(b, parent, config) ==
    {j \in DOMAIN b.value_value_relationships :
        /\ b.value_value_relationships[j].relationship_type = config.relationship_to_parent
        /\ b.value_value_relationships[j].source_value_id = parent}

\* with take_first_match at most one link, and when an item satisfies the
\* filter the link is the one of the first such item; without it one link
\* for every item that satisfies the filter
RelatedLinksAsConfigured(f, b, node, parent, config) ==
    IF config.take_first_match.some /\ config.take_first_match.val
    THEN /\ Cardinality(RelatedLinks(b, parent, config)) <= 1
         /\ MatchingItems(node, config) # {} =>
               \A j \in RelatedLinks(b, parent, config) :
                   Some(b.value_value_relationships[j].target_value_id) =
                       TargetOfItem(f, RelatedItemsAt(node, config)[FirstOf(MatchingItems(node, config))],
                                    config)
    ELSE MatchingItems(node, config) # {} =>
             /\ Cardinality(RelatedLinks(b, parent, config))
                   = Cardinality(MatchingItems(node, config))
             /\ \A m \in MatchingItems(node, config) :
                   \E j \in RelatedLinks(b, parent, config) :
                       Some(b.value_value_relationships[j].target_value_id) =
                           TargetOfItem(f, RelatedItemsAt(node, config)[m], config)

\* the related-value configs of the affiliation entity, for the named
\* affiliations of a line (the names of a record differ, so the parents do)
AffiliationLinksAsConfigured(f, i, configs) ==
    \A k \in DOMAIN AffiliationItemsOf(files[f].lines[i].json) :
        extract_value(AffiliationItemsOf(files[f].lines[i].json)[k],
                      AffiliationEntityF.value_extraction.val).some =>
            \A config \in configs :
                RelatedLinksAsConfigured(f, rows_of_line(f, i),
                    AffiliationItemsOf(files[f].lines[i].json)[k],
                    ValueIdOf(f, AffiliationNameType,
                        extract_value(AffiliationItemsOf(files[f].lines[i].json)[k],
                                      AffiliationEntityF.value_extraction.val).val),
                    config)

\* C29: with take_first_match = true at most one value_value_relationships
\* row is pushed per parent item, and it is the row of the first item in
\* source order that satisfies the filter condition; with take_first_match
\* false or absent one row is pushed for every item that satisfies it.
C29_TakeFirstMatch ==
    \A x \in HandledLines :
        /\ AffiliationLinksAsConfigured(x[1], x[2], {RorRelated, FirstIdRelated, IdAllRelated})
        /\ RelatedLinksAsConfigured(x[1], rows_of_line(x[1], x[2]),
               PositionOf(files[x[1]].lines[x[2]].json), AuthorIdOf(x[1]), TagRelated)
\* the value_ids of the named affiliations of a record
AffiliationIdsOf(f, record) ==
    {ValueIdOf(f, AffiliationNameType,
               extract_value(AffiliationItemsOf(record)[k],
                             AffiliationEntityF.value_extraction.val).val) :
        k \in {n \in DOMAIN AffiliationItemsOf(record) :
                  extract_value(AffiliationItemsOf(record)[n],
                                AffiliationEntityF.value_extraction.val).some}}

\* C30 for the line i of file f.  The position entity has no
\* value_extraction: the departments nested in it and its tags are linked
\* from the author, the value of the enclosing entity.  The author and the
\* affiliation entities have one: the affiliations are linked from the
\* author's own value_id and the related values of an affiliation from the
\* affiliation's own value_id.
ChildrenLinkedFromParent(f, i) ==
    LET record == files[f].lines[i].json
        b == rows_of_line(f, i)
        depts == ArrayItemsAt(PositionOf(record), "dept")
        tags == ArrayItemsAt(PositionOf(record), "tag")
    IN  /\ \A k \in DOMAIN depts :
              LinksWhere(b.value_value_relationships, "has_dept", AuthorIdOf(f),
                         ValueIdOf(f, DeptNameType, depts[k].o.name.s), Some(k)) # {}
        /\ \A k \in DOMAIN tags :
              LinksWhere(b.value_value_relationships, "has_tag", AuthorIdOf(f),
                         ValueIdOf(f, TagType, tags[k].o.t.s), None) # {}
        /\ \A j \in DOMAIN b.value_value_relationships :
              /\ b.value_value_relationships[j].relationship_type
                     \in {"has_dept", "has_tag", "has_affiliation"}
                   => b.value_value_relationships[j].source_value_id = AuthorIdOf(f)
              /\ b.value_value_relationships[j].relationship_type
                     \in {"has_ror", "has_id", "first_id"}
                   => b.value_value_relationships[j].source_value_id
                          \in AffiliationIdsOf(f, record)
        /\ \A a \in AffiliationIdsOf(f, record) :
              \E j \in DOMAIN b.value_value_relationships :
                  /\ b.value_value_relationships[j].relationship_type = "has_affiliation"
                  /\ b.value_value_relationships[j].target_value_id = a

\* C30: the nested entities and related values of an entity without
\* value_extraction have the value of the enclosing entity as the source of
\* their links; those of an entity with value_extraction have the item's own
\* value_id.
C30_ParentOfChildren ==
    \A x \in HandledLines : ChildrenLinkedFromParent(x[1], x[2])

\* C30 witness: a worker has handled the record whose position holds a
\* department and a tag, and both links start at the author.
C30_Witness ==
    \E x \in HandledLines :
        /\ files[x[1]].lines[x[2]].json = RecordAbandoned
        /\ LinksWhere(rows_of_line(x[1], x[2]).value_value_relationships, "has_dept",
                      AuthorIdOf(x[1]), ValueIdOf(x[1], DeptNameType, <<"D">>), Some(1)) # {}
        /\ LinksWhere(rows_of_line(x[1], x[2]).value_value_relationships, "has_tag",
                      AuthorIdOf(x[1]), ValueIdOf(x[1], TagType, <<"T">>), None) # {}
        /\ LinksWhere(rows_of_line(x[1], x[2]).value_value_relationships, "has_ror",
                      ValueIdOf(x[1], AffiliationNameType, <<"O">>),
                      ValueIdOf(x[1], RorIdType, <<"r">>), None) # {}

\* the step in which the worker of file f returns from process and the task
\* ends
TaskOfFileEnds(f) == work[f].status = "running" /\ work'[f].status # "running"

\* C31: a file yields at most one batch.  The task of a file ends once, as a
\* success; in that step its batch is appended to the queue when it holds a
\* row and nothing is sent when it holds none; the queue gains a batch in no
\* other step, a finished file never runs again, and no batch in the queue is
\* empty.
C31_OneBatchPerFile ==
    /\ [](\A i \in DOMAIN queue : ~is_empty(queue[i]))
    /\ [][/\ \A f \in FileIds :
                /\ TaskOfFileEnds(f) =>
                      /\ work'[f].status = "ok"
                      /\ queue' = IF is_empty(work[f].batch) THEN queue
                                  ELSE Append(queue, work[f].batch)
                /\ work[f].status = "ok" => work'[f] = work[f]
          /\ Len(queue') > Len(queue) =>
                Cardinality({f \in FileIds : TaskOfFileEnds(f)}) = 1
          /\ summary'.successful_files_count \in
                {summary.successful_files_count,
                 Cardinality({f \in FileIds : work[f].status = "ok"})}]_vars

\* C31 witness: the run is over; one file whose lines were all skipped or
\* filtered out sent nothing, another sent its batch, both count as
\* successful and the writer received one batch of records.
C31_Witness ==
    /\ mainpc = "exit"
    /\ summary.successful_files_count = Cardinality(FileIds)
    /\ \E f, g \in FileIds :
          /\ Len(files[f].lines) > 0
          /\ \E i \in DOMAIN files[f].lines : files[f].lines[i].kind = "json"
          /\ is_empty(work[f].batch)
          /\ ~is_empty(work[g].batch)
    /\ Len(w.tables.records) =
          SumOver({f \in FileIds : TRUE}, [f \in FileIds |-> Len(work[f].batch.records)])

\* the ids that the null registry holds
NullIds == {null_value_ids[k] : k \in DOMAIN null_value_ids}

\* what the get-or-compute calls returned: every records row of a batch
\* carries the record_id stored for its primary id, every values row of an
\* extracted value the value_id stored for its (value_type, content)
CallsReturnedStoredIds ==
    \A f \in FileIds :
        /\ \A i \in DOMAIN work[f].batch.records :
              /\ work[f].batch.records[i].doi \in DOMAIN record_id_map
              /\ work[f].batch.records[i].record_id
                     = record_id_map[work[f].batch.records[i].doi]
        /\ \A i \in DOMAIN work[f].batch.values :
              work[f].batch.values[i].value_id \notin NullIds =>
                  /\ <<work[f].batch.values[i].value_type,
                       work[f].batch.values[i].value_content>> \in DOMAIN value_id_map
                  /\ work[f].batch.values[i].value_id
                         = value_id_map[<<work[f].batch.values[i].value_type,
                                          work[f].batch.values[i].value_content>>]

\* the worker of file f handles a line in this step
HandlesLine(f) == work[f].status = "running" /\ work'[f].line = work[f].line + 1

\* C32: an entry of record_id_map or value_id_map is never changed or
\* removed; a new entry holds the id computed by the worker that inserts it;
\* and every get-or-compute call, of whatever worker, returned the id that
\* the first inserter stored for the key.
C32_FirstInserterWins ==
    /\ [][/\ \A k \in DOMAIN record_id_map :
                k \in DOMAIN record_id_map' /\ record_id_map'[k] = record_id_map[k]
          /\ \A k \in DOMAIN value_id_map :
                k \in DOMAIN value_id_map' /\ value_id_map'[k] = value_id_map[k]
          /\ \A f \in FileIds : HandlesLine(f) =>
                /\ \A k \in DOMAIN record_id_map' \ DOMAIN record_id_map :
                      record_id_map'[k] = generate_record_id(processor(f), k)
                /\ \A k \in DOMAIN value_id_map' \ DOMAIN value_id_map :
                      value_id_map'[k] = generate_value_id(processor(f), k[1], k[2])]_vars
    /\ []CallsReturnedStoredIds

\* C32 witness: two files under profiles with different prefixes have both
\* ingested one primary id and extracted one value; both batches carry the
\* ids of the maps, which only one of the two workers can have computed.
C32_Witness ==
    \E f, g \in FileIds :
        /\ Profiles[files[f].profile].deterministic_ids.record_prefix
              # Profiles[files[g].profile].deterministic_ids.record_prefix
        /\ Profiles[files[f].profile].deterministic_ids.value_prefix
              # Profiles[files[g].profile].deterministic_ids.value_prefix
        /\ \E i \in DOMAIN work[f].batch.records, j \in DOMAIN work[g].batch.records :
              /\ work[f].batch.records[i].doi = work[g].batch.records[j].doi
              /\ work[f].batch.records[i].record_id = work[g].batch.records[j].record_id
              /\ work[g].batch.records[j].record_id
                    # generate_record_id(processor(g), work[g].batch.records[j].doi)
        /\ \E i \in DOMAIN work[f].batch.values, j \in DOMAIN work[g].batch.values :
              /\ work[f].batch.values[i].value_id \notin NullIds
              /\ work[f].batch.values[i].value_id = work[g].batch.values[j].value_id
              /\ work[g].batch.values[j].value_id
                    # generate_value_id(processor(g), work[g].batch.values[j].value_type,
                                        work[g].batch.values[j].value_content)

\* the rows of a table that come from the batch of file f
RowsOfFile(table_name, f) ==
    {i \in DOMAIN w.tables[table_name] : FileOfRow(table_name, w.tables[table_name][i]) = f}

\* C33: a batch that cannot be written does not end the writer.  While
\* batches are queued the writer stays in its loop and no queued batch but
\* the one being received leaves the queue; flush starts only when the queue
\* is empty and every sender is gone, finalization follows it; and every
\* scheduled run brings the writer through both to its end, whatever writes
\* failed.
C33_WriterContinuesAfterIoError ==
    /\ [][(wpc = "recv" /\ queue # <<>>) =>
             /\ wpc' = "recv"
             /\ \E n \in {0, 1} :
                   /\ Len(queue') >= Len(queue) - n
                   /\ SubSeq(queue', 1, Len(queue) - n) = SubSeq(queue, 1 + n, Len(queue))]_vars
    /\ [][/\ (wpc' = "finalize" /\ wpc # "finalize") =>
                wpc = "recv" /\ queue = <<>> /\ sender_dropped
          /\ (wpc' = "done" /\ wpc # "done") => wpc = "finalize"]_vars
    /\ <>(wpc = "done" /\ queue = <<>>)

\* C33 witness: the writer is done; the batch of one file failed in the
\* process_value_relationships table after its keys were inserted (the table
\* is empty, the set is not), and the batch of another file, received after
\* it, was written down to its value_value_relationships and values rows.
C33_Witness ==
    /\ wpc = "done"
    /\ w.tables.process_value_relationships = <<>>
    /\ w.written_process_value_rels # {}
    /\ \E f, g \in FileIds :
          /\ f # g
          /\ RowsOfFile("process_record_relationships", f) # {}
          /\ RowsOfFile("value_value_relationships", f) = {}
          /\ RowsOfFile("value_value_relationships", g) # {}
    /\ w.tables.values # <<>>

\* C36: in every state of the writer, a key is in written_value_ids,
\* written_process_value_rels or written_value_value_rels only if the
\* corresponding table holds a row with that key, also after a write_batch
\* or finalize call that returned an I/O error part-way through.
C36_WrittenKeysHaveRows ==
    /\ \A id \in w.written_value_ids :
          \E i \in DOMAIN w.tables.values : w.tables.values[i].value_id = id
    /\ \A key \in w.written_process_value_rels :
          \E i \in DOMAIN w.tables.process_value_relationships :
              ProcessValueRelKey(w.tables.process_value_relationships[i]) = key
    /\ \A key \in w.written_value_value_rels :
          \E i \in DOMAIN w.tables.value_value_relationships :
              ValueValueRelKey(w.tables.value_value_relationships[i]) = key

\* the line i of file f is a record for which the doi_prefix filter is
\* active, the path of the filter is absent, and fallback_from is the
\* record-identifier path of the profile, where the record has a string
FallsBackToIdentifier(f, i) ==
    LET profile == Profiles[files[f].profile]
        record == files[f].lines[i].json
        fc == filter_config_of(profile, "doi_prefix")
    IN  /\ "doi_prefix" \in DOMAIN files[f].filters
        /\ fc.some
        /\ ~get_value_at_path(record, fc.val.path).some
        /\ fc.val.fallback_from = Some(profile.record_identifier.path)
        /\ get_value_at_path(record, profile.record_identifier.path).some
        /\ get_value_at_path(record, profile.record_identifier.path).val.k = "str"

\* the part of the identifier of the record before its first '/'
PrefixOfIdentifier(f, i) ==
    split_once_prefix(
        get_value_at_path(files[f].lines[i].json,
                          Profiles[files[f].profile].record_identifier.path).val.s, "/")

\* C34: when the path of the doi_prefix filter is absent and fallback_from is
\* the record-identifier path of the profile, whatever that path is, the
\* filter resolves to the part of the identifier before its first '/', and
\* the record passes (its rows are in the batch) exactly when that prefix is
\* the required value.
C34_DoiPrefixFallback ==
    \A x \in HandledLines :
        (files[x[1]].lines[x[2]].kind = "json" /\ FallsBackToIdentifier(x[1], x[2])) =>
            /\ resolved_filter_value(processor(x[1]), files[x[1]].lines[x[2]].json,
                   "doi_prefix",
                   filter_config_of(Profiles[files[x[1]].profile], "doi_prefix").val)
                   = PrefixOfIdentifier(x[1], x[2])
            /\ ~should_filter_out(processor(x[1]), files[x[1]].lines[x[2]].json)
                   <=> PrefixOfIdentifier(x[1], x[2]) = Some(files[x[1]].filters["doi_prefix"])
            /\ rows_of_line(x[1], x[2]).records # <<>>
                   <=> PrefixOfIdentifier(x[1], x[2]) = Some(files[x[1]].filters["doi_prefix"])

\* the run is over: every worker has finished, the queue is closed and
\* empty, the writer thread has ended and main has joined it
Terminated ==
    /\ mainpc = "exit"
    /\ AllFilesFinished
    /\ sender_dropped
    /\ queue = <<>>
    /\ wpc \in {"done", "panicked"}

\* C35: every run terminates.  Until main has exited some thread can take a
\* step (no deadlock, also with workers waiting on a full queue and with a
\* writer that ended at start-up or in the middle of its work), and every
\* scheduled run reaches the end: workers finished, queue closed and drained
\* or dropped, writer ended, main joined.
C35_EveryRunTerminates ==
    /\ [](mainpc # "exit" => PoolCanStep \/ WriterCanStep \/ MainCanStep)
    /\ <>Terminated

\* C35 witness: the writer failed at start-up (no table was created) after
\* the workers had filled the queue; the files that came after that failed
\* to send, and main has collected the results, joined the writer and exited.
C35_Witness ==
    /\ Terminated
    /\ wpc = "panicked"
    /\ headers = {}
    /\ Cardinality({f \in FileIds : work[f].status = "ok"}) = channel_capacity
    /\ Cardinality({f \in FileIds : work[f].status = "failed"}) = 2
    /\ summary.exit_code = 1

\* the processor of file f without the top-level entities of its profile
\* that have no value_extraction
WithoutBareTopLevelEntities(f) ==
    [processor(f) EXCEPT
        !.profile.entities = SelectSeq(@, LAMBDA config : config.value_extraction.some)]

\* every link between values in the batch b starts at a value that the
\* batch establishes: the parent of a child is a value id that exists
EveryChildHasParent(b) ==
    \A j \in DOMAIN b.value_value_relationships :
        \E i \in DOMAIN b.values :
            b.values[i].value_id = b.value_value_relationships[j].source_value_id

\* C37: nested entities and related values are processed only under a parent
\* value id.  Every link between values starts at a value of the same record,
\* and a top-level entity without value_extraction contributes nothing: the
\* rows of a record are the rows it has under the profile without that
\* entity, nested entities and related values (null defaults included) left
\* out.
C37_NoChildrenWithoutParent ==
    \A x \in HandledLines :
        /\ EveryChildHasParent(rows_of_line(x[1], x[2]))
        /\ rows_of_line(x[1], x[2])
              = process_line(WithoutBareTopLevelEntities(x[1]), files[x[1]].lines[x[2]],
                             [batch |-> EmptyBatch, record_id_map |-> record_id_map,
                              value_id_map |-> value_id_map]).batch

\* C37 witness: a worker has handled, under the profile whose first entity
\* has no value_extraction, the record with affiliations, a department and no
\* tag at the author; the batch holds the funder of the record and no link
\* between values.
C37_Witness ==
    \E x \in HandledLines :
        /\ files[x[1]].profile = "T"
        /\ files[x[1]].lines[x[2]].json = RecordAbandoned
        /\ rows_of_line(x[1], x[2]).value_value_relationships = <<>>
        /\ Len(rows_of_line(x[1], x[2]).values) = 1
        /\ rows_of_line(x[1], x[2]).values[1].value_type = FunderNameType
        /\ Len(rows_of_line(x[1], x[2]).record_value_relationships) = 1

\* the record has a non-empty string, after trimming, at the
\* record-identifier path of the profile of file f
HasUsableId(f, record) ==
    LET v == get_value_at_path(record, Profiles[files[f].profile].record_identifier.path)
    IN  v.some /\ v.val.k = "str" /\ trim(v.val.s) # <<>>

\* the line that the worker of file f handles next is skipped: it does not
\* parse, or its record is rejected by a filter or has no usable identifier
NextLineIsSkipped(f) ==
    LET line == files[f].lines[work[f].line]
    IN  \/ line.kind # "json"
        \/ RejectedByFilter(f, line.json)
        \/ ~HasUsableId(f, line.json)

\* C38: a worker that handles a line which does not parse, or a record that
\* is filtered out or has no usable identifier, leaves record_id_map,
\* value_id_map and the batch of its file as they are; and whenever
\* record_id_map gains an entry, the batch of the worker gains the records
\* row of that primary id in the same step.
C38_SkippedRecordsChangeNothing ==
    [][\A f \in FileIds : HandlesLine(f) =>
          /\ NextLineIsSkipped(f) =>
                /\ record_id_map' = record_id_map
                /\ value_id_map' = value_id_map
                /\ work'[f].batch = work[f].batch
          /\ \A k \in DOMAIN record_id_map' \ DOMAIN record_id_map :
                /\ Len(work'[f].batch.records) = Len(work[f].batch.records) + 1
                /\ work'[f].batch.records[Len(work'[f].batch.records)]
                      = [record_id |-> record_id_map'[k], doi |-> k]]_vars

\* C38 witness: a file is finished that held a record which a filter
\* rejected and a line that does not parse or a record without usable
\* identifier; its batch is empty, and record_id_map has entries, none of
\* them for an identifier of this file.
C38_Witness ==
    \E f \in FileIds :
        /\ work[f].status = "ok"
        /\ is_empty(work[f].batch)
        /\ \E i \in DOMAIN files[f].lines :
              /\ files[f].lines[i].kind = "json"
              /\ HasUsableId(f, files[f].lines[i].json)
              /\ RejectedByFilter(f, files[f].lines[i].json)
        /\ \E i \in DOMAIN files[f].lines :
              \/ files[f].lines[i].kind # "json"
              \/ ~HasUsableId(f, files[f].lines[i].json)
        /\ DOMAIN record_id_map # {}
        /\ \A i \in DOMAIN files[f].lines :
              files[f].lines[i].kind = "json" /\ HasUsableId(f, files[f].lines[i].json) =>
                  trim(as_str(get_value_at_path(files[f].lines[i].json,
                           Profiles[files[f].profile].record_identifier.path).val).val)
                      \notin DOMAIN record_id_map

\* C39: every file of the run is processed once and ends as a success or as
\* a failure, never both and never neither.  A file is taken by one task,
\* which ends once; its outcome does not change afterwards; and when main has
\* collected the results, the successful files and the failed files together
\* are all the files found, also when the writer has failed and closed the
\* queue.
C39_EveryFileHasOneOutcome ==
    /\ [](mainpc \in {"join", "exit"} =>
            /\ AllFilesFinished
            /\ summary.successful_files_count
                  = Cardinality({f \in FileIds : work[f].status = "ok"})
            /\ summary.files_with_errors = {f \in FileIds : work[f].status = "failed"}
            /\ summary.successful_files_count + Cardinality(summary.files_with_errors)
                  = Cardinality(FileIds))
    /\ [][\A f \in FileIds :
            /\ work[f].status \in {"ok", "failed"} => work'[f] = work[f]
            /\ work[f].status = "running" => work'[f].status \in {"running", "ok", "failed"}
            /\ work[f].status = "pending" =>
                  /\ work'[f].status \in {"pending", "running", "failed"}
                  /\ work'[f].batch = EmptyBatch
                  /\ work'[f].line = 1]_vars

\* C39 witness: main has exited after a run in which the writer failed; one
\* file was sent before that and counts as successful, another could not send
\* its batch and counts as failed.
C39_Witness ==
    /\ mainpc = "exit"
    /\ wpc = "panicked"
    /\ summary.successful_files_count >= 1
    /\ \E f \in summary.files_with_errors :
          work[f].line > Len(files[f].lines) /\ ~is_empty(work[f].batch)
    /\ \E f \in FileIds : work[f].status = "ok" /\ ~is_empty(work[f].batch)

====
